---- MODULE Spec2Model ----
(***************************************************************************)
(* Model of the DocuSign envelope synchronisation service                  *)
(* (src/Flask-MySQL): the status deriver and the upsert engine of map.py,  *)
(* and the sync / refresh-deal-names handlers of app.py.                   *)
(*                                                                         *)
(* Python values are modelled as follows.  A dict is a record that has     *)
(* every key; a key the dict lacks holds Absent, a key bound to Python's   *)
(* None holds None.  Strings are TLA+ strings, and the string methods the  *)
(* code uses (lower, strip) are tables over the strings of the model.      *)
(* A function that can raise returns a record with a field "raised".       *)
(* A database table is a function from its primary keys to its rows.       *)
(* The autoincrement surrogate key of a recipient is assigned by the       *)
(* database, not by the code, and is not modelled.                         *)
(***************************************************************************)
EXTENDS Integers, Sequences, FiniteSets, TLC

VARIABLES
    now,          \* the wall clock (datetime.now / datetime.utcnow), in ticks
    envelopes,    \* committed table "envelopes": id -> row (with its recipients)
    sync_logs,    \* committed table "sync_logs": sequence of rows, in insertion order
    run,          \* per request: position in the handler, locals, session
    stats,        \* history: attempts made, failure-log writes swallowed
    changed_at,   \* history: when the provider last changed an envelope
    last,         \* history of the last upsert transaction (before/after, payload)
    derive_call,  \* one call of derive_app_status: arguments and result
    deal_call     \* one run of the deal-name extraction: arguments and result

vars == <<now, envelopes, sync_logs, run, stats, changed_at, last, derive_call, deal_call>>

----------------------------------------------------------------------------
(* Bounds of the model *)

MaxSigners == 2       \* longest signer list of a payload
MaxClock == 2         \* the clock stops ticking here
DayLen == 2           \* ticks per calendar day
MaxRequests == 2      \* requests served in one behaviour
MaxFetch == 2         \* longest list a fetch returns
MaxFields == 2        \* longest list of custom fields of a payload

(* Program constants *)

DefaultDays == 30     \* app.py: timedelta(days=30)
RefreshLimit == 20    \* app.py: .limit(20)
ErrMax == 500         \* app.py: str(e)[:500]
NoRouting == 9999     \* map.py: int(r.get("routingOrder") or 9999)

----------------------------------------------------------------------------
(* Python values *)

\* a local variable: v is computed once and F reads it
Let(v, F(_)) == CHOOSE r \in {F(x) : x \in {v}} : TRUE

None == "<None>"        \* Python's None
Absent == "<absent>"    \* a key the dict does not have

\* dict.get(key, default)
Get(v, default) == IF v = Absent THEN default ELSE v

\* truthiness of a string-or-None value: `v or x` takes x for None and ""
Falsy(v) == v \in {None, Absent, ""}
Or(v, x) == IF Falsy(v) THEN x ELSE v

\* str.lower(), on the strings of the model
Lower(s) ==
    CASE s = "Sent" -> "sent"
      [] s = "Delivered" -> "delivered"
      [] s = "Completed" -> "completed"
      [] s = "COMPLETED" -> "completed"
      [] s = "Voided" -> "voided"
      [] s = "Deal" -> "deal"
      [] s = "EnvelopeTypes" -> "envelopetypes"
      [] s = "With" -> "with"
      [] s = "Docusign" -> "docusign"
      [] OTHER -> s

\* str.strip(), on the strings of the model
Strip(s) ==
    CASE s = " Project X " -> "Project X"
      [] s = "  " -> ""
      [] s = "Ab  " -> "Ab"
      [] OTHER -> s

\* len(), on the strings the subject patterns capture (after strip)
StrLen(s) ==
    CASE s = "" -> 0
      [] s = "Ab" -> 2
      [] s = "AB" -> 2
      [] s = "Acme" -> 4
      [] s = "Equity" -> 6
      [] s = "Docusign" -> 8
      [] s = "Project X" -> 9
      [] s = "With" -> 4
      [] s = "Trust" -> 5
      [] s = "STRATA" -> 6
      [] s = "Acme Corp" -> 9
      [] OTHER -> 3

----------------------------------------------------------------------------
(* map.py: derive_app_status *)

RECURSIVE status_raises(_)
\* r.get("status", "").lower() raises AttributeError when the key is bound to None
status_raises(recipients) ==
    IF recipients = <<>> THEN FALSE
    ELSE Get(Head(recipients).status, "") = None \/ status_raises(Tail(recipients))

RECURSIVE signed_count(_)
\* sum(1 for r in recipients if r.get("status", "").lower() == "completed")
signed_count(recipients) ==
    IF recipients = <<>> THEN 0
    ELSE (IF Lower(Get(Head(recipients).status, "")) = "completed" THEN 1 ELSE 0)
         + signed_count(Tail(recipients))

derive_sent(recipients) ==
    IF status_raises(recipients)
    THEN [raised |-> TRUE, value |-> None]
    ELSE LET total_signers == Len(recipients) IN
         IF signed_count(recipients) = 0
         THEN [raised |-> FALSE, value |-> "Awaiting Customer"]
         ELSE IF signed_count(recipients) < total_signers
         THEN [raised |-> FALSE, value |-> "Partially Signed"]
         ELSE [raised |-> FALSE, value |-> "Awaiting Processing"]

derive_app_status(env_status, recipients) ==
    IF env_status = "voided" THEN [raised |-> FALSE, value |-> "Cancelled"]
    ELSE IF env_status = "declined" THEN [raised |-> FALSE, value |-> "Declined"]
    ELSE IF env_status = "completed" THEN [raised |-> FALSE, value |-> "Completed"]
    ELSE IF env_status \in {"sent", "delivered"} THEN derive_sent(recipients)
    ELSE [raised |-> FALSE, value |-> "Draft"]

----------------------------------------------------------------------------
(* map.py: iso2dt.  A datetime is written as the string of its value. *)

iso2dt(s) ==
    IF Falsy(s) THEN [raised |-> FALSE, value |-> None]
    ELSE CASE s = "2024-01-01T12:00:00Z" ->
                  [raised |-> FALSE, value |-> "2024-01-01 12:00:00+00:00"]
           [] s = "2024-01-01T12:00:00+00:00" ->
                  [raised |-> FALSE, value |-> "2024-01-01 12:00:00+00:00"]
           [] s = "2024-01-02T09:30:00Z" ->
                  [raised |-> FALSE, value |-> "2024-01-02 09:30:00+00:00"]
           [] s = "2024-01-02T09:30:00" ->
                  [raised |-> FALSE, value |-> "2024-01-02 09:30:00"]
           [] OTHER -> [raised |-> TRUE, value |-> None]   \* ValueError

----------------------------------------------------------------------------
(* map.py: the deal name of upsert_envelope (lines 20-97) *)

DEAL_NAME_FIELD_MAPPINGS ==
    [f \in {"deal", "deal_name", "dealname", "custom field"} |-> "direct_value"]
    @@ [f \in {"envelopetypes"} |-> "category_value"]

RECURSIVE custom_field_phase(_)
\* the loop over textCustomFields: the first mapped field with a value wins;
\* t.get("name", "").lower() and t.get("value", "").strip() raise on None
custom_field_phase(fields) ==
    IF fields = <<>> THEN [raised |-> FALSE, value |-> None]
    ELSE LET t == Head(fields) IN
         IF Get(t.name, "") = None \/ Get(t.value, "") = None
         THEN [raised |-> TRUE, value |-> None]
         ELSE LET field_name == Lower(Get(t.name, ""))
                  field_value == Strip(Get(t.value, ""))
              IN IF field_name \in DOMAIN DEAL_NAME_FIELD_MAPPINGS /\ field_value # ""
                 THEN [raised |-> FALSE, value |-> field_value]
                 ELSE custom_field_phase(Tail(fields))

NoMatch == "<no match>"

\* re.search(patterns[i], subject, re.IGNORECASE).group(1), for the subjects of
\* the model (the values are those Python's re gives for the seven patterns)
re_search(i, subject) ==
    CASE subject = "Complete with Docusign: Acme Corp Subscription" /\ i \in {3, 4, 5}
             -> "Acme Corp"
      [] subject = "With Subscription" /\ i = 3 -> "With"
      [] subject = "Ab   Account" /\ i = 3 -> "Ab  "
      [] subject = "STRATA_Trust Account Form" /\ i \in {1, 2} -> "STRATA"
      [] subject = "STRATA_Trust Account Form" /\ i = 3 -> "Trust"
      [] subject = "Docusign Consent: Acme Form" /\ i = 3 -> "Docusign"
      [] subject = "Docusign Consent: Acme Form" /\ i = 5 -> "Acme"
      [] OTHER -> NoMatch

Patterns == 1..7

STOPLIST == {"complete", "docusign", "with"}

RECURSIVE subject_phase_first_match_ends(_, _)
\* the loop with the `break` moved out of the inner `if`: the first pattern
\* that matches ends the search, whether or not its capture is accepted
subject_phase_first_match_ends(i, subject) ==
    IF i \notin Patterns THEN None
    ELSE LET m == re_search(i, subject)
             potential_deal == Strip(m)
         IN IF m = NoMatch THEN subject_phase_first_match_ends(i + 1, subject)
            ELSE IF StrLen(potential_deal) > 2 /\ Lower(potential_deal) \notin STOPLIST
            THEN potential_deal
            ELSE None

RECURSIVE subject_phase(_, _)
\* the loop over the patterns, from pattern i on
subject_phase(i, subject) ==
    IF i \notin Patterns THEN None
    ELSE LET m == re_search(i, subject)
             potential_deal == Strip(m)
         IN IF m # NoMatch /\ StrLen(potential_deal) > 2
                /\ Lower(potential_deal) \notin STOPLIST
            THEN potential_deal
            ELSE subject_phase(i + 1, subject)

extract_deal_name(item) ==
    LET cf == custom_field_phase(item.textCustomFields) IN
    IF cf.raised THEN cf
    ELSE IF ~Falsy(cf.value) THEN cf
    ELSE [raised |-> FALSE,
          value |-> subject_phase(1, Or(Get(item.emailSubject, ""), ""))]

----------------------------------------------------------------------------
(* models.py: the rows; map.py: upsert_envelope *)

NoTime == 0 - 1     \* a DateTime column not yet set

\* Envelope(id=env_id): a transient object, every column unset, no recipients
NewEnvelope ==
    [subject |-> None, sender_email |-> None, deal_name |-> None, status |-> None,
     app_status |-> None, created_at |-> None, sent_at |-> None,
     delivered_at |-> None, completed_at |-> None, updated_at |-> NoTime,
     recipients |-> <<>>]

\* int(r.get("routingOrder") or 9999)
routing_order_int(r) ==
    LET v == Get(r.routingOrder, None) IN
    IF Falsy(v) THEN [raised |-> FALSE, value |-> NoRouting]
    ELSE CASE v = "1" -> [raised |-> FALSE, value |-> 1]
           [] v = "2" -> [raised |-> FALSE, value |-> 2]
           [] OTHER -> [raised |-> TRUE, value |-> 0]    \* ValueError, e.g. int("None")

\* Recipient(name=..., email=..., role=..., routing_order=..., recipient_status=..., raw=r)
Recipient(r) ==
    [name |-> Get(r.name, None),
     email |-> Get(r.email, None),
     role |-> Get(r.roleName, None),
     routing_order |-> routing_order_int(r).value,
     recipient_status |-> Lower(Or(Get(r.status, None), "")),
     raw |-> r]

RECURSIVE insert_recipients(_, _)
\* the loop with insert(0, ...) for append(...): the recipients end up reversed
insert_recipients(acc, recs) ==
    IF recs = <<>> THEN [raised |-> FALSE, value |-> acc]
    ELSE IF routing_order_int(Head(recs)).raised THEN [raised |-> TRUE, value |-> acc]
    ELSE insert_recipients(<<Recipient(Head(recs))>> \o acc, Tail(recs))

RECURSIVE append_recipients(_, _)
\* the loop `for r in recs: env.recipients.append(Recipient(...))` onto acc
append_recipients(acc, recs) ==
    IF recs = <<>> THEN [raised |-> FALSE, value |-> acc]
    ELSE IF routing_order_int(Head(recs)).raised THEN [raised |-> TRUE, value |-> acc]
    ELSE append_recipients(Append(acc, Recipient(Head(recs))), Tail(recs))

\* the loop without env.recipients.clear(): the new recipients join the old ones
merge_recipients(env, recs) == append_recipients(env.recipients, recs)

\* env.recipients.clear(), then the loop
replace_recipients(env, recs) == append_recipients(<<>>, recs)

\* lines 12-14 with `env.x = env.x or ...`: a stored subject, sender or status
\* is kept, only a missing one is filled in
set_scalars_fill_missing(env, item) ==
    LET e1 == [env EXCEPT !.subject = Or(env.subject, Get(item.emailSubject, None)),
                          !.sender_email = Or(env.sender_email, Get(item.sender, None)),
                          !.status = Or(env.status, Lower(Or(Get(item.status, None), "")))]
        c == iso2dt(Get(item.createdDateTime, None))
        s == iso2dt(Get(item.sentDateTime, None))
        d == iso2dt(Get(item.deliveredDateTime, None))
        f == iso2dt(Get(item.completedDateTime, None))
        e2 == [e1 EXCEPT !.created_at = c.value]
        e3 == [e2 EXCEPT !.sent_at = s.value]
        e4 == [e3 EXCEPT !.delivered_at = d.value]
        e5 == [e4 EXCEPT !.completed_at = f.value]
    IN IF c.raised THEN [raised |-> TRUE, env |-> e1]
       ELSE IF s.raised THEN [raised |-> TRUE, env |-> e2]
       ELSE IF d.raised THEN [raised |-> TRUE, env |-> e3]
       ELSE IF f.raised THEN [raised |-> TRUE, env |-> e4]
       ELSE [raised |-> FALSE, env |-> e5]

\* lines 15-18 with `env.x_at = env.x_at or iso2dt(...)`: a timestamp is set
\* once and kept from then on
set_scalars_timestamps_once(env, item) ==
    LET e1 == [env EXCEPT !.subject = Get(item.emailSubject, None),
                          !.sender_email = Get(item.sender, None),
                          !.status = Lower(Or(Get(item.status, None), ""))]
        c == iso2dt(Get(item.createdDateTime, None))
        s == iso2dt(Get(item.sentDateTime, None))
        d == iso2dt(Get(item.deliveredDateTime, None))
        f == iso2dt(Get(item.completedDateTime, None))
        e2 == [e1 EXCEPT !.created_at = Or(@, c.value)]
        e3 == [e2 EXCEPT !.sent_at = Or(@, s.value)]
        e4 == [e3 EXCEPT !.delivered_at = Or(@, d.value)]
        e5 == [e4 EXCEPT !.completed_at = Or(@, f.value)]
    IN IF c.raised THEN [raised |-> TRUE, env |-> e1]
       ELSE IF s.raised THEN [raised |-> TRUE, env |-> e2]
       ELSE IF d.raised THEN [raised |-> TRUE, env |-> e3]
       ELSE IF f.raised THEN [raised |-> TRUE, env |-> e4]
       ELSE [raised |-> FALSE, env |-> e5]

\* lines 12-18: the scalar columns, the four timestamps in order
set_scalars(env, item) ==
    LET e1 == [env EXCEPT !.subject = Get(item.emailSubject, None),
                          !.sender_email = Get(item.sender, None),
                          !.status = Lower(Or(Get(item.status, None), ""))]
        c == iso2dt(Get(item.createdDateTime, None))
        s == iso2dt(Get(item.sentDateTime, None))
        d == iso2dt(Get(item.deliveredDateTime, None))
        f == iso2dt(Get(item.completedDateTime, None))
        e2 == [e1 EXCEPT !.created_at = c.value]
        e3 == [e2 EXCEPT !.sent_at = s.value]
        e4 == [e3 EXCEPT !.delivered_at = d.value]
        e5 == [e4 EXCEPT !.completed_at = f.value]
    IN IF c.raised THEN [raised |-> TRUE, env |-> e1]
       ELSE IF s.raised THEN [raised |-> TRUE, env |-> e2]
       ELSE IF d.raised THEN [raised |-> TRUE, env |-> e3]
       ELSE IF f.raised THEN [raised |-> TRUE, env |-> e4]
       ELSE [raised |-> FALSE, env |-> e5]

\* lines 12-113 on the object env: the object as the code leaves it, and whether
\* an exception left it there half-updated
map_envelope(env, item, t) ==
    Let(set_scalars(env, item), LAMBDA sc :
    IF sc.raised THEN sc ELSE
    Let(extract_deal_name(item), LAMBDA dn :
    IF dn.raised THEN [raised |-> TRUE, env |-> sc.env] ELSE
    Let([sc.env EXCEPT !.deal_name = dn.value], LAMBDA e6 :
    Let(replace_recipients(e6, item.signers), LAMBDA rr :
    Let([e6 EXCEPT !.recipients = rr.value], LAMBDA e7 :
    IF rr.raised THEN [raised |-> TRUE, env |-> e7] ELSE
    Let(derive_app_status(e7.status, item.signers), LAMBDA st :
    IF st.raised THEN [raised |-> TRUE, env |-> e7]
    ELSE [raised |-> FALSE,
          env |-> [e7 EXCEPT !.app_status = st.value, !.updated_at = t]]))))))

\* session.get(Envelope, env_id): the object the session holds, else the committed row
session_get(sess, db, env_id) ==
    IF env_id \in DOMAIN sess THEN sess[env_id] ELSE db[env_id]

session_has(sess, db, env_id) == env_id \in DOMAIN sess \/ env_id \in DOMAIN db

\* a merge that keeps the object the session already holds for env_id
session_put_unless_held(sess, env_id, env) ==
    IF env_id \in DOMAIN sess THEN sess
    ELSE [k \in DOMAIN sess \cup {env_id} |-> IF k = env_id THEN env ELSE sess[k]]

\* sess with the object of env_id set to env
session_put(sess, env_id, env) ==
    [k \in DOMAIN sess \cup {env_id} |-> IF k = env_id THEN env ELSE sess[k]]

\* item.get("envelopeId") for item["envelopeId"]: None when the key is missing
envelope_id_or_none(item) ==
    [raised |-> FALSE,
     value |-> IF item.envelopeId = Absent THEN None ELSE item.envelopeId]

\* line 10, item["envelopeId"]: KeyError when the payload has no such key
envelope_id(item) ==
    IF item.envelopeId = Absent THEN [raised |-> TRUE, value |-> None]
    ELSE [raised |-> FALSE, value |-> item.envelopeId]

\* upsert_envelope(session, item) at time t over the committed table db: the
\* session afterwards, whether the call raised, and whether it read the
\* storage (session.get, line 11).  An object the session loaded
\* is changed in place, so it keeps what was assigned before an exception; a new
\* object enters the session only by the final session.merge(env).
upsert_envelope(sess, db, item, t) ==
    Let(envelope_id(item), LAMBDA id :
    IF id.raised THEN [raised |-> TRUE, sess |-> sess, read |-> FALSE]   \* KeyError
    ELSE LET env_id == id.value
             found == session_has(sess, db, env_id)
             env == IF found THEN session_get(sess, db, env_id) ELSE NewEnvelope
         IN Let(map_envelope(env, item, t), LAMBDA m :
            IF found \/ ~m.raised
            THEN [raised |-> m.raised, sess |-> session_put(sess, env_id, m.env),
                  read |-> TRUE]
            ELSE [raised |-> TRUE, sess |-> sess, read |-> TRUE]))

\* a commit that loses the envelopes of the session
commit_without_envelopes(sess, db) == db

\* session.commit(): the objects of the session become the committed rows
commit(sess, db) ==
    [k \in DOMAIN db \cup DOMAIN sess |-> IF k \in DOMAIN sess THEN sess[k] ELSE db[k]]

----------------------------------------------------------------------------
(* The inputs of the model *)

\* all sequences over S of length at most n
SeqsUpTo(S, n) == UNION {[1..k -> S] : k \in 0..n}

\* str(r.routing_order), as fetch_envelopes and refresh_deal_names build the
\* "routingOrder" of a signer: the provider's value is a string of digits, or
\* None when the recipient has no routing order, and str(None) is "None"
str_of(v) == IF v = None THEN "None" ELSE v

\* one signer of a payload, as fetch_envelopes builds it
Signer(name, status, routingOrder) ==
    [name |-> name, email |-> None, roleName |-> "Signer",
     routingOrder |-> routingOrder, status |-> status]

\* raw statuses and recipient lists derive_app_status is called with
DeriveStatuses ==
    {"voided", "declined", "completed", "sent", "delivered", "created",
     "processing", "Sent", "", None}
DeriveSignerStatuses == {Absent, None, "", "sent", "completed", "Completed"}
DeriveSigners == {Signer("Ann", st, "1") : st \in DeriveSignerStatuses}
DeriveRecipients == SeqsUpTo(DeriveSigners, MaxSigners)

IdleDerive == [status |-> None, recipients |-> <<>>, called |-> FALSE,
               result |-> [raised |-> FALSE, value |-> None]]

----------------------------------------------------------------------------
(* A direct call of derive_app_status on drawn arguments *)

InitDerivePart ==
    derive_call \in {[IdleDerive EXCEPT !.status = st, !.recipients = rs] :
                         st \in DeriveStatuses, rs \in DeriveRecipients}

CallDerive ==
    /\ ~derive_call.called
    /\ derive_call' = [derive_call EXCEPT
           !.called = TRUE,
           !.result = derive_app_status(derive_call.status, derive_call.recipients)]
    /\ UNCHANGED <<now, envelopes, sync_logs, run, stats, changed_at, last, deal_call>>

----------------------------------------------------------------------------
(* A direct run of the deal-name extraction (map.py 20-97) on drawn custom   *)
(* fields and a drawn subject                                                *)

\* the custom fields of a payload: {"name": cf.name, "value": cf.value}
DealFields ==
    { [name |-> "Deal", value |-> " Project X "],
      [name |-> "deal", value |-> "AB"],
      [name |-> "deal", value |-> ""],
      [name |-> "deal", value |-> "  "],
      [name |-> "deal", value |-> None],
      [name |-> "deal", value |-> Absent],
      [name |-> "EnvelopeTypes", value |-> "Equity"],
      [name |-> "notes", value |-> "Equity"] }

DealSubjects ==
    { "", None, "Please sign",
      "Complete with Docusign: Acme Corp Subscription",
      "With Subscription", "Ab   Account", "STRATA_Trust Account Form",
      "Docusign Consent: Acme Form" }

IdleDeal == [textCustomFields |-> <<>>, emailSubject |-> None, called |-> FALSE,
             result |-> [raised |-> FALSE, value |-> None]]

InitDealPart ==
    deal_call \in {[IdleDeal EXCEPT !.textCustomFields = fs, !.emailSubject = su] :
                       fs \in SeqsUpTo(DealFields, MaxFields), su \in DealSubjects}

CallDeal ==
    /\ ~deal_call.called
    /\ deal_call' = [deal_call EXCEPT !.called = TRUE,
                                      !.result = extract_deal_name(deal_call)]
    /\ UNCHANGED <<now, envelopes, sync_logs, run, stats, changed_at, last, derive_call>>

----------------------------------------------------------------------------
(* Payloads, as fetch_envelopes (docusign_client.py 83-110) and              *)
(* refresh_deal_names (app.py 343-370) build them: every key is present.     *)

Item(id, status, subject, fields, signers, created) ==
    [envelopeId |-> id, emailSubject |-> subject, status |-> status,
     createdDateTime |-> created, sentDateTime |-> None,
     deliveredDateTime |-> None, completedDateTime |-> None,
     sender |-> "sender@example.com",
     textCustomFields |-> fields, signers |-> signers]

EnvIds == {"E1", "E2"}

AcmeSubject == "Complete with Docusign: Acme Corp Subscription"
Created1 == "2024-01-01T12:00:00Z"
Created2 == "2024-01-02T09:30:00Z"

\* a custom field whose value is null: upsert_envelope raises on it
NullDealField == <<[name |-> "deal", value |-> None]>>

\* what the provider returns in the specification of the orchestrator
SyncItems ==
    { Item("E1", "Sent", AcmeSubject, <<>>, <<Signer("Ann", "sent", "1")>>, Created1),
      Item("E2", "voided", "Please sign", NullDealField, <<>>, Created1) }

\* what the provider returns in the specification of the stored envelopes
StoreItems ==
    { Item("E1", "Sent", AcmeSubject, <<>>, <<Signer("Ann", "sent", "1")>>, Created1),
      Item("E2", "completed", "Please sign", <<>>, <<Signer("Bob", "sent", "2")>>, Created1),
      Item("E2", "voided", "Please sign", NullDealField, <<>>, Created1),
      Item("E2", "sent", "Please sign", <<>>,
           <<Signer("Ann", "completed", "1"), Signer("Dee", "sent", str_of(None))>>, Created1) }

\* the payloads upsert_envelope is applied to on its own: every combination of
\* a status, a source of the deal name, a created timestamp and a signer list
UpsertSigners ==
    { Signer("Ann", "Completed", "1"),
      Signer("Bob", "sent", Absent),
      Signer("Cy", None, "2"),           \* status null: derive_app_status raises
      Signer("Dee", "sent", str_of(None)) }   \* no routing order at the provider

DealSources ==
    { [subject |-> "Please sign", fields |-> <<>>],
      [subject |-> AcmeSubject, fields |-> <<>>],
      [subject |-> AcmeSubject, fields |-> <<[name |-> "Deal", value |-> " Project X "]>>],
      [subject |-> AcmeSubject, fields |-> NullDealField] }

UpsertItems ==
    { Item("E1", st, d.subject, d.fields, sg, cr) :
        st \in {"Sent", "completed"}, d \in DealSources,
        sg \in SeqsUpTo(UpsertSigners, MaxSigners),
        cr \in {Created1, Created2, None, "not-a-date"} }
    \cup { Item(Absent, "Sent", AcmeSubject, <<>>,
                 <<Signer("Ann", "Completed", "1")>>, Created1) }   \* no envelopeId

\* the payloads that set up the stored row before the upsert under study
PriorItems ==
    { Item("E1", "Sent", AcmeSubject, <<>>, <<Signer("Ann", "sent", "1")>>, Created1),
      [Item("E1", "delivered", "Please sign", <<>>,
            <<Signer("Eve", "completed", "2"), Signer("Bob", "sent", Absent)>>, Created1)
         EXCEPT !.sentDateTime = Created1, !.completedDateTime = Created2] }

----------------------------------------------------------------------------
(* Time.  datetime values are ticks; strftime("%Y-%m-%d") keeps the day. *)

\* dt.strftime("%Y-%m-%d"): the calendar date of a datetime, as a day number
strftime_date(t) == t \div DayLen

\* the datetime at which a calendar date starts
DayStart(d) == d * DayLen

\* datetime - timedelta(days=n)
minus_days(t, n) == t - n * DayLen

----------------------------------------------------------------------------
(* Exceptions: str(e) is a sequence of characters *)

Text(n) == [i \in 1..n |-> "x"]

CredentialError == [type |-> "RuntimeError: Missing DocuSign credentials", text |-> Text(3)]
FetchErrors ==
    { [type |-> "RuntimeError: fetch_envelopes failed", text |-> Text(4)],
      [type |-> "RuntimeError: fetch_envelopes failed", text |-> Text(ErrMax + 1)] }
UpsertError == [type |-> "error raised by upsert_envelope", text |-> Text(5)]
CommitError == [type |-> "OperationalError", text |-> Text(6)]
IntegrityError == [type |-> "IntegrityError: duplicate entry for key PRIMARY", text |-> Text(8)]
LogWriteError == [type |-> "error raised by the failure-log write", text |-> Text(7)]
NoError == [type |-> "", text |-> <<>>]

\* str(e)[:500]
truncate(text) == SubSeq(text, 1, IF Len(text) < ErrMax THEN Len(text) ELSE ErrMax)

----------------------------------------------------------------------------
(* The state of one request *)

EmptyTable == [k \in {} |-> NewEnvelope]
NoDate == 0 - 1000          \* from_date not yet computed
NoResponse == [code |-> 0, synced_count |-> 0, error |-> <<>>]

Runs == {"r1"}

\* an inbound webhook delivery: whether a shared secret is configured, and the
\* state of the signature header
NoWebhook == [secret_configured |-> FALSE, signature |-> "none"]
WebhookDeliveries ==
    [secret_configured : BOOLEAN, signature : {"valid", "invalid", "missing"}]

IdleRun ==
    [pc |-> "idle",
     kind |-> "",                \* "sync" or "refresh"
     days_back |-> <<>>,         \* request_data.get("days_back"): <<>> is None, <<n>> is n
     force_full_sync |-> FALSE,
     from_date |-> NoDate,       \* the "%Y-%m-%d" string, as a day number
     consulted |-> FALSE,        \* history: the SyncLog query of line 251 ran
     logs_read |-> 0,            \* history: the number of SyncLog rows when it ran
     window_at |-> NoTime,       \* history: the clock when from_date was computed
     fetched_at |-> NoTime,      \* history: the clock when the provider answered
     envelopes |-> <<>>,         \* the fetched payloads / the envelope ids to refresh
     i |-> 1,                    \* position of the loop
     session |-> EmptyTable,     \* the objects of the SQLAlchemy session
     inserted |-> {},            \* the ids of the session's new objects (INSERT pending)
     error |-> NoError,          \* the exception caught
     log_failed |-> FALSE,       \* history: the failure-log write raised (line 304)
     logs_before |-> 0,          \* history: the number of SyncLog rows at the start
     seq |-> 0,                  \* history: the sync is the seq-th request started
     db_before |-> EmptyTable,   \* history: the envelopes table at the start
     webhook |-> NoWebhook,      \* the delivery a webhook request carries
     response |-> NoResponse]

IdleStats ==
    [requests |-> 0,                  \* requests started
     attempts |-> 0,                  \* sync attempts started (try block entered)
     swallowed |-> 0,                 \* failure-log writes that raised
     unread |-> 0,                    \* sync requests rejected before the try block
     plain |-> TRUE,                  \* every sync so far had no parameter and succeeded
     success_fetched_at |-> NoTime]   \* when the last successful sync fetched

IdleLast == [n |-> 0, item |-> Item(Absent, None, None, <<>>, <<>>, None),
             raised |-> FALSE, read |-> FALSE, before |-> EmptyTable,
             repeated |-> FALSE]

----------------------------------------------------------------------------
(* app.py: sync_envelopes *)

\* truthiness of request_data.get("days_back"): None and 0 are falsy
days_back_truthy(days_back) == days_back # <<>> /\ days_back[1] # 0

\* SyncLog(...) as the handler builds it; created_at is the column default
SyncLogRow(date, count, status, message, t) ==
    [sync_type |-> "envelope_sync", last_sync_date |-> date,
     envelopes_synced |-> count, sync_status |-> status,
     error_message |-> message, created_at |-> t]

\* the query without .where(SyncLog.sync_status == "success"): rows of any status
rows_of_any_status(logs) ==
    {k \in DOMAIN logs : logs[k].sync_type = "envelope_sync"}

\* lines 251-257: the success rows, and the last_sync_date of the one the
\* query returns (ORDER BY last_sync_date DESC LIMIT 1)
success_rows(logs) ==
    {k \in DOMAIN logs : logs[k].sync_type = "envelope_sync"
                          /\ logs[k].sync_status = "success"}

\* the query ordered the other way: the oldest success row
last_sync_date_of_oldest(logs) ==
    LET k == CHOOSE k \in success_rows(logs) :
                 \A j \in success_rows(logs) :
                     logs[k].last_sync_date <= logs[j].last_sync_date
    IN logs[k].last_sync_date

last_sync_date_of(logs) ==
    LET k == CHOOSE k \in success_rows(logs) :
                 \A j \in success_rows(logs) :
                     logs[j].last_sync_date <= logs[k].last_sync_date
    IN logs[k].last_sync_date

\* the query without the status filter, the status tested afterwards: the
\* window starts at the latest row when that row is a success, else 30 days back
sync_window_latest_row(days_back, force_full_sync, logs, t) ==
    IF force_full_sync \/ days_back_truthy(days_back)
    THEN [from_date |-> strftime_date(minus_days(t, DefaultDays)), consulted |-> FALSE]
    ELSE IF logs # <<>> /\ logs[Len(logs)].sync_status = "success"
         THEN [from_date |-> strftime_date(logs[Len(logs)].last_sync_date),
               consulted |-> TRUE]
         ELSE [from_date |-> strftime_date(minus_days(t, DefaultDays)),
               consulted |-> TRUE]

\* the window without the incremental branch: always the last 30 days
sync_window_last_30_days(days_back, force_full_sync, logs, t) ==
    [from_date |-> strftime_date(minus_days(t, DefaultDays)),
     consulted |-> ~(force_full_sync \/ days_back_truthy(days_back))]

\* lines 240-265: from_date, and whether the SyncLog was queried
sync_window(days_back, force_full_sync, logs, t) ==
    IF force_full_sync \/ days_back_truthy(days_back)
    THEN IF days_back_truthy(days_back)
         THEN [from_date |-> strftime_date(minus_days(t, days_back[1])),
               consulted |-> FALSE]
         ELSE [from_date |-> strftime_date(minus_days(t, DefaultDays)),
               consulted |-> FALSE]
    ELSE IF success_rows(logs) # {}
         THEN [from_date |-> strftime_date(last_sync_date_of(logs)),
               consulted |-> TRUE]
         ELSE [from_date |-> strftime_date(minus_days(t, DefaultDays)),
               consulted |-> TRUE]

DaysBackInputs == {<<>>, <<0>>, <<1>>}

\* lines 230-232, before the try block: request.json raises on a body that is
\* not JSON, and request_data.get on one that is not an object; Flask answers
\* with an error and the try block is never entered
NoBody ==
    [IdleRun EXCEPT !.kind = "sync", !.pc = "done",
                    !.response = [code |-> 400, synced_count |-> 0, error |-> <<>>]]

\* lines 230-236: the request is read and the DocuSign client obtained, or
\* get_docusign_client raises; or the request cannot be read
SyncStart(r, DaysBack, Force) ==
    /\ run[r].pc = "idle"
    /\ stats.requests < MaxRequests
    /\ \/ /\ run' = [run EXCEPT ![r] =
                    [NoBody EXCEPT !.logs_before = Len(sync_logs),
                                   !.db_before = envelopes]]
          /\ stats' = [stats EXCEPT !.requests = @ + 1, !.unread = @ + 1,
                                    !.plain = FALSE]
       \/ \E days_back \in DaysBack, force \in Force, client_ok \in BOOLEAN :
          /\ run' = [run EXCEPT ![r] =
                    [IdleRun EXCEPT !.kind = "sync",
                                    !.days_back = days_back,
                                    !.force_full_sync = force,
                                    !.logs_before = Len(sync_logs),
                                    !.seq = stats.requests + 1,
                                    !.db_before = envelopes,
                                    !.pc = IF client_ok THEN "fetch" ELSE "except",
                                    !.error = IF client_ok THEN NoError
                                              ELSE CredentialError]]
          /\ stats' = [stats EXCEPT !.requests = @ + 1, !.attempts = @ + 1,
                                    !.plain = @ /\ days_back = <<>> /\ ~force]
    /\ UNCHANGED <<now, envelopes, sync_logs, changed_at, last, derive_call, deal_call>>

\* fetch_envelopes_since(api_client, account_id, from_date): the payloads of the
\* envelopes the provider reports as changed since from_date, or an exception.
\* What the provider reports is the provider's choice among Items.
fetch_envelopes_since(Items, from_date) ==
    {[raised |-> FALSE, value |-> items, error |-> NoError] :
        items \in SeqsUpTo(Items, MaxFetch)}
    \cup {[raised |-> TRUE, value |-> <<>>, error |-> e] : e \in FetchErrors}

\* lines 238-267: a session opens, the window is chosen and the provider is
\* asked for the envelopes changed since from_date; the call returns a list
\* or raises
SyncFetch(r, Items) ==
    /\ run[r].pc = "fetch"
    /\ LET w == sync_window(run[r].days_back, run[r].force_full_sync, sync_logs, now)
           opened == [run[r] EXCEPT !.from_date = w.from_date,
                                    !.consulted = w.consulted,
                                    !.logs_read = Len(sync_logs),
                                    !.window_at = now,
                                    !.fetched_at = now,
                                    !.session = EmptyTable]
       IN \E f \in fetch_envelopes_since(Items, w.from_date) :
             run' = [run EXCEPT ![r] =
                       IF f.raised
                       THEN [opened EXCEPT !.pc = "except", !.error = f.error]
                       ELSE [opened EXCEPT !.pc = "upsert", !.envelopes = f.value,
                                           !.i = 1]]
    /\ UNCHANGED <<now, envelopes, sync_logs, stats, changed_at, last, derive_call, deal_call>>

\* map.py line 11 and line 114: an envelope id that session.get does not find,
\* in the session or in the committed table, gives a new object, which
\* session.merge makes pending: the flush will INSERT it
pending_inserts(inserted, sess, db, item) ==
    IF session_has(sess, db, item.envelopeId) THEN inserted
    ELSE inserted \cup {item.envelopeId}

\* the flush of session.commit(): the INSERT of a pending object whose id
\* another transaction has committed meanwhile violates the primary key of
\* envelopes (models.py line 13)
duplicate_key(inserted, db) == inserted \cap DOMAIN db # {}

\* a session whose close writes what it holds
close_session_commits(sess, db) == commit(sess, db)

\* line 238, `with Session() as session`: an exception leaves the block, the
\* session is closed and its transaction rolled back: the table is as it was
close_session(sess, db) == db

\* lines 270-271: one turn of the loop; an exception leaves the with block,
\* which closes the session and discards what it held
SyncUpsert(r) ==
    /\ run[r].pc = "upsert"
    /\ run[r].i <= Len(run[r].envelopes)
    /\ LET u == upsert_envelope(run[r].session, envelopes,
                                run[r].envelopes[run[r].i], now)
           new == pending_inserts(run[r].inserted, run[r].session, envelopes,
                                  run[r].envelopes[run[r].i])
       IN /\ run' = [run EXCEPT ![r] =
                    IF u.raised
                    THEN [@ EXCEPT !.pc = "except", !.error = UpsertError,
                                   !.session = EmptyTable, !.inserted = {}]
                    ELSE [@ EXCEPT !.i = @ + 1, !.session = u.sess,
                                   !.inserted = new]]
          /\ envelopes' = IF u.raised THEN close_session(run[r].session, envelopes)
                          ELSE envelopes
    /\ UNCHANGED <<now, sync_logs, stats, changed_at, last, derive_call, deal_call>>

\* the handler without session.add(sync_log): no failure row
failure_log_not_added(logs, e, t) == logs

\* the handler with the success block's row: status "success", no message
failure_log_as_success(logs, e, t) ==
    Append(logs, SyncLogRow(t, 0, "success", None, t))

\* lines 295-303: the failure row joins sync_logs
failure_log(logs, e, t) ==
    Append(logs, SyncLogRow(t, 0, "error", truncate(e.text), t))

\* a single status row kept up to date: the success row overwrites the latest
\* row of the table
success_log_replaces_last(logs, count, t) ==
    IF logs = <<>> THEN Append(logs, SyncLogRow(t, count, "success", None, t))
    ELSE [logs EXCEPT ![Len(logs)] = SyncLogRow(t, count, "success", None, t)]

\* the success row built without envelopes_synced: the column default, 0
success_log_without_count(logs, count, t) ==
    Append(logs, SyncLogRow(t, 0, "success", None, t))

\* lines 275-282: the success row joins sync_logs
success_log(logs, count, t) ==
    Append(logs, SyncLogRow(t, count, "success", None, t))

\* lines 273-289: the success row joins the session and one commit writes the
\* envelopes and the row; or the commit raises and nothing is written.  It
\* raises on a duplicate key, and it may raise when the database fails
SyncCommit(r) ==
    /\ run[r].pc = "upsert"
    /\ run[r].i > Len(run[r].envelopes)
    /\ \/ /\ ~duplicate_key(run[r].inserted, envelopes)
          /\ envelopes' = commit(run[r].session, envelopes)
          /\ sync_logs' = success_log(sync_logs, Len(run[r].envelopes), now)
          /\ run' = [run EXCEPT ![r] =
                [@ EXCEPT !.pc = "done", !.session = EmptyTable, !.inserted = {},
                          !.response = [code |-> 200,
                                        synced_count |-> Len(run[r].envelopes),
                                        error |-> <<>>]]]
          /\ stats' = [stats EXCEPT !.success_fetched_at = run[r].fetched_at]
       \/ /\ run' = [run EXCEPT ![r] =
                [@ EXCEPT !.pc = "except",
                          !.error = IF duplicate_key(run[r].inserted, envelopes)
                                    THEN IntegrityError ELSE CommitError,
                          !.session = EmptyTable, !.inserted = {}]]
          /\ envelopes' = close_session(run[r].session, envelopes)
          /\ UNCHANGED <<sync_logs, stats>>
    /\ UNCHANGED <<now, changed_at, last, derive_call, deal_call>>

\* the inner handler re-raising: the exception of the log write leaves the
\* except block in place of e
log_failure_raised(e, log_error) == log_error

\* lines 304-305, `except: pass`: the exception of the log write is dropped and
\* e is still the exception the handler answers with
log_failure_swallowed(e, log_error) == e

\* line 307: jsonify({"error": str(e)}), 500
error_response(e) == [code |-> 500, synced_count |-> 0, error |-> e.text]

\* lines 291-307: a failure row is written in a session of its own; if that
\* write raises, the exception is swallowed.  The response carries str(e).
SyncExcept(r) ==
    /\ run[r].pc = "except"
    /\ run[r].kind = "sync"
    /\ \/ /\ sync_logs' = failure_log(sync_logs, run[r].error, now)
          /\ run' = [run EXCEPT ![r] =
                [@ EXCEPT !.pc = "done",
                          !.response = error_response(run[r].error)]]
          /\ stats' = [stats EXCEPT !.plain = FALSE]
       \/ /\ run' = [run EXCEPT ![r] =
                [@ EXCEPT !.pc = "done", !.log_failed = TRUE,
                          !.response = error_response(
                              log_failure_swallowed(run[r].error, LogWriteError))]]
          /\ stats' = [stats EXCEPT !.swallowed = @ + 1, !.plain = FALSE]
          /\ UNCHANGED sync_logs
    /\ UNCHANGED <<now, envelopes, changed_at, last, derive_call, deal_call>>

\* the response has been sent: the request is over
Finish(r) ==
    /\ run[r].pc = "done"
    /\ run' = [run EXCEPT ![r] = IdleRun]
    /\ UNCHANGED <<now, envelopes, sync_logs, stats, changed_at, last, derive_call, deal_call>>

----------------------------------------------------------------------------
(* app.py: refresh_deal_names *)

Perms(S) == {f \in [1..Cardinality(S) -> S] : \A a, b \in DOMAIN f : f[a] = f[b] => a = b}

\* the query without .where(Envelope.deal_name.is_(None)): every envelope
envelopes_to_update_any(db) ==
    LET ids == DOMAIN db
        ordered == {f \in Perms(ids) :
                      \A a, b \in DOMAIN f :
                          a < b => db[f[a]].updated_at >= db[f[b]].updated_at}
    IN {SubSeq(f, 1, IF Len(f) < RefreshLimit THEN Len(f) ELSE RefreshLimit) :
           f \in ordered}

\* lines 318-323: the ids of the envelopes without a deal name, most recently
\* updated first, at most 20; rows updated at the same time come in any order
envelopes_to_update(db) ==
    LET ids == {k \in DOMAIN db : db[k].deal_name = None}
        ordered == {f \in Perms(ids) :
                      \A a, b \in DOMAIN f :
                          a < b => db[f[a]].updated_at >= db[f[b]].updated_at}
    IN {SubSeq(f, 1, IF Len(f) < RefreshLimit THEN Len(f) ELSE RefreshLimit) :
           f \in ordered}

\* lines 312-332: the client is obtained and the envelopes are selected into
\* the session; without a client the handler answers 500, and with nothing to
\* update it answers at once
RefreshStart(r) ==
    /\ run[r].pc = "idle"
    /\ stats.requests < MaxRequests
    /\ \/ run' = [run EXCEPT ![r] =
                [IdleRun EXCEPT !.kind = "refresh", !.pc = "done",
                                !.error = CredentialError,
                                !.response = [code |-> 500, synced_count |-> 0,
                                              error |-> CredentialError.text]]]
       \/ \E ids \in envelopes_to_update(envelopes) :
             run' = [run EXCEPT ![r] =
                [IdleRun EXCEPT !.kind = "refresh",
                                !.pc = IF ids = <<>> THEN "done" ELSE "refresh",
                                !.envelopes = ids,
                                !.session = [k \in {ids[j] : j \in DOMAIN ids}
                                               |-> envelopes[k]],
                                !.response = [code |-> IF ids = <<>> THEN 200 ELSE 0,
                                              synced_count |-> 0, error |-> <<>>]]]
    /\ stats' = [stats EXCEPT !.requests = @ + 1]
    /\ UNCHANGED <<now, envelopes, sync_logs, changed_at, last, derive_call, deal_call>>

\* lines 334-393: one turn of the loop.  get_envelope raises, or its answer is
\* upserted; either exception is caught (line 389) and the loop goes on with
\* the session as the exception left it
RefreshOne(r, Items) ==
    /\ run[r].pc = "refresh"
    /\ run[r].i <= Len(run[r].envelopes)
    /\ \/ run' = [run EXCEPT ![r] = [@ EXCEPT !.i = @ + 1]]
       \/ \E item \in Items :
             /\ item.envelopeId = run[r].envelopes[run[r].i]
             /\ run' = [run EXCEPT ![r] =
                   [@ EXCEPT !.i = @ + 1,
                             !.session = upsert_envelope(run[r].session, envelopes,
                                                         item, now).sess]]
    /\ UNCHANGED <<now, envelopes, sync_logs, stats, changed_at, last, derive_call, deal_call>>

\* lines 395-403: the commit writes the session; or it raises and the handler
\* answers 500
RefreshCommit(r) ==
    /\ run[r].pc = "refresh"
    /\ run[r].i > Len(run[r].envelopes)
    /\ \/ /\ envelopes' = commit(run[r].session, envelopes)
          /\ run' = [run EXCEPT ![r] =
                [@ EXCEPT !.pc = "done", !.session = EmptyTable,
                          !.response = [code |-> 200, synced_count |-> 0,
                                        error |-> <<>>]]]
       \/ /\ run' = [run EXCEPT ![r] =
                [@ EXCEPT !.pc = "done", !.session = EmptyTable,
                          !.error = CommitError,
                          !.response = [code |-> 500, synced_count |-> 0,
                                        error |-> CommitError.text]]]
          /\ UNCHANGED envelopes
    /\ UNCHANGED <<now, sync_logs, stats, changed_at, last, derive_call, deal_call>>

----------------------------------------------------------------------------
(* app.py: sync_status *)

\* lines 410-415: the row created last (ORDER BY created_at DESC LIMIT 1), any
\* of them when several were created at the same time
last_created(logs) ==
    {k \in DOMAIN logs : \A j \in DOMAIN logs : logs[j].created_at <= logs[k].created_at}

\* lines 405-439: GET /sync/status reads the SyncLog and answers with the last
\* sync; it writes nothing
SyncStatus(r) ==
    /\ run[r].pc = "idle"
    /\ stats.requests < MaxRequests
    /\ \/ /\ sync_logs = <<>>
          /\ run' = [run EXCEPT ![r] =
                [IdleRun EXCEPT !.kind = "status", !.pc = "done",
                                !.response = [code |-> 200, synced_count |-> 0,
                                              error |-> <<>>]]]
       \/ \E k \in last_created(sync_logs) :
             run' = [run EXCEPT ![r] =
                [IdleRun EXCEPT !.kind = "status", !.pc = "done",
                                !.response = [code |-> 200,
                                              synced_count |-> sync_logs[k].envelopes_synced,
                                              error |-> <<>>]]]
    /\ stats' = [stats EXCEPT !.requests = @ + 1]
    /\ UNCHANGED <<now, envelopes, sync_logs, changed_at, last, derive_call, deal_call>>

----------------------------------------------------------------------------
(* app.py: the routes *)

\* the answer of Flask to a request that matches no route of the app
NotFound == [code |-> 404, synced_count |-> 0, error |-> <<>>]

\* POST /docusign/webhook: the app registers /, /envelopes,
\* /envelopes/custom-fields, /envelopes/<envelope_id>, /envelopes/stats,
\* /sync/envelopes, /envelopes/deals/refresh-deal-names and /sync/status, and
\* no route for webhooks; Flask answers 404 and no handler runs, whatever the
\* delivery carries
Webhook(r) ==
    /\ run[r].pc = "idle"
    /\ stats.requests < MaxRequests
    /\ \E delivery \in WebhookDeliveries :
          run' = [run EXCEPT ![r] =
                    [IdleRun EXCEPT !.kind = "webhook", !.pc = "done",
                                    !.webhook = delivery,
                                    !.logs_before = Len(sync_logs),
                                    !.db_before = envelopes,
                                    !.response = NotFound]]
    /\ stats' = [stats EXCEPT !.requests = @ + 1]
    /\ UNCHANGED <<now, envelopes, sync_logs, changed_at, last, derive_call, deal_call>>

----------------------------------------------------------------------------
(* The environment: the clock, and the provider *)

Tick ==
    /\ now < MaxClock
    /\ now' = now + 1
    /\ UNCHANGED <<envelopes, sync_logs, run, stats, changed_at, last, derive_call, deal_call>>

\* an envelope changes at the provider
ProviderChange ==
    /\ changed_at # now
    /\ changed_at' = now
    /\ UNCHANGED <<now, envelopes, sync_logs, run, stats, last, derive_call, deal_call>>

----------------------------------------------------------------------------
(* upsert_envelope on its own: one call in a transaction of its caller, which *)
(* commits when the call returns and rolls back when it raises                *)

UpsertTxn(item, n, repeats) ==
    \E u \in {upsert_envelope(EmptyTable, envelopes, item, now)} :
    /\ envelopes' = IF u.raised THEN envelopes ELSE commit(u.sess, envelopes)
    /\ last' = [n |-> n, item |-> item, raised |-> u.raised, read |-> u.read,
                before |-> envelopes,
                repeated |-> repeats /\ ~last.raised /\ ~u.raised]
    /\ UNCHANGED <<now, sync_logs, run, stats, changed_at, derive_call, deal_call>>

\* an earlier upsert, which leaves a stored row
UpsertPrior == last.n = 0 /\ \E item \in PriorItems : UpsertTxn(item, 1, FALSE)

\* the upsert under study, of any payload
UpsertOnce == last.n \in {0, 1} /\ \E item \in UpsertItems : UpsertTxn(item, 2, FALSE)

\* the same payload applied again, right after
UpsertAgain == last.n = 2 /\ UpsertTxn(last.item, 3, TRUE)

----------------------------------------------------------------------------
(* The service: requests served one at a time *)

Init ==
    /\ now = 0
    /\ envelopes = EmptyTable
    /\ sync_logs = <<>>
    /\ run = [r \in Runs |-> IdleRun]
    /\ stats = IdleStats
    /\ changed_at = NoTime
    /\ last = IdleLast
    /\ derive_call = IdleDerive
    /\ deal_call = IdleDeal

\* the sync orchestrator, with every kind of request, and the clock
Next ==
    \/ Tick
    \/ \E r \in Runs : SyncStart(r, DaysBackInputs, BOOLEAN)
    \/ \E r \in Runs : SyncFetch(r, SyncItems)
    \/ \E r \in Runs : SyncUpsert(r)
    \/ \E r \in Runs : SyncCommit(r)
    \/ \E r \in Runs : SyncExcept(r)
    \/ \E r \in Runs : Finish(r)

Spec == Init /\ [][Next]_vars

\* incremental syncs while envelopes change at the provider
NextChange ==
    \/ Tick
    \/ ProviderChange
    \/ \E r \in Runs : SyncStart(r, {<<>>}, {FALSE})
    \/ \E r \in Runs : SyncFetch(r, SyncItems)
    \/ \E r \in Runs : SyncUpsert(r)
    \/ \E r \in Runs : SyncCommit(r)
    \/ \E r \in Runs : SyncExcept(r)
    \/ \E r \in Runs : Finish(r)

SpecChange == Init /\ [][NextChange]_vars

\* the stored envelopes under incremental syncs, refresh-deal-names and
\* webhook deliveries
NextStore ==
    \/ Tick
    \/ \E r \in Runs : Webhook(r)
    \/ \E r \in Runs : SyncStart(r, {<<>>}, {FALSE})
    \/ \E r \in Runs : SyncFetch(r, StoreItems)
    \/ \E r \in Runs : SyncUpsert(r)
    \/ \E r \in Runs : SyncCommit(r)
    \/ \E r \in Runs : SyncExcept(r)
    \/ \E r \in Runs : RefreshStart(r)
    \/ \E r \in Runs : RefreshOne(r, StoreItems)
    \/ \E r \in Runs : RefreshCommit(r)
    \/ \E r \in Runs : Finish(r)

SpecStore == Init /\ [][NextStore]_vars

\* incremental syncs alone: what one run commits and what it leaves behind
NextRun ==
    \/ Tick
    \/ \E r \in Runs : SyncStart(r, {<<>>}, {FALSE})
    \/ \E r \in Runs : SyncFetch(r, SyncItems)
    \/ \E r \in Runs : SyncUpsert(r)
    \/ \E r \in Runs : SyncCommit(r)
    \/ \E r \in Runs : SyncExcept(r)
    \/ \E r \in Runs : Finish(r)

SpecRun == Init /\ [][NextRun]_vars

\* what the provider returns in the specification of the window: one envelope
WindowItems ==
    { Item("E1", "Sent", AcmeSubject, <<>>, <<Signer("Ann", "sent", "1")>>, Created1) }

\* syncs of every kind of request (incremental, days_back, force_full_sync),
\* each writing the SyncLog rows the next incremental sync reads
NextWindow ==
    \/ Tick
    \/ \E r \in Runs : SyncStart(r, DaysBackInputs, BOOLEAN)
    \/ \E r \in Runs : SyncFetch(r, WindowItems)
    \/ \E r \in Runs : SyncUpsert(r)
    \/ \E r \in Runs : SyncCommit(r)
    \/ \E r \in Runs : SyncExcept(r)
    \/ \E r \in Runs : Finish(r)

SpecWindow == Init /\ [][NextWindow]_vars

\* the SyncLog under every operation that reads or writes storage: syncs,
\* refresh-deal-names and status queries
LogItems ==
    { Item("E2", "completed", "Please sign", <<>>, <<Signer("Bob", "sent", "2")>>, Created1) }

NextLog ==
    \/ Tick
    \/ \E r \in Runs : SyncStart(r, {<<>>}, {FALSE})
    \/ \E r \in Runs : SyncFetch(r, LogItems)
    \/ \E r \in Runs : SyncUpsert(r)
    \/ \E r \in Runs : SyncCommit(r)
    \/ \E r \in Runs : SyncExcept(r)
    \/ \E r \in Runs : RefreshStart(r)
    \/ \E r \in Runs : RefreshOne(r, LogItems)
    \/ \E r \in Runs : RefreshCommit(r)
    \/ \E r \in Runs : SyncStatus(r)
    \/ \E r \in Runs : Finish(r)

SpecLog == Init /\ [][NextLog]_vars

\* refresh-deal-names over envelopes an earlier sync has stored: E1 has a deal
\* name, E2 and E3 have none
StoredItems ==
    { Item("E1", "Sent", AcmeSubject, <<>>, <<Signer("Ann", "sent", "1")>>, Created1),
      Item("E2", "completed", "Please sign", <<>>, <<Signer("Bob", "sent", "2")>>, Created1),
      Item("E3", "sent", "Please sign", <<>>, <<>>, Created1) }

\* what get_envelope returns for them: E1 completed meanwhile, E2 as it was,
\* with a subject that names the deal, or with a recipient without routing
\* order, E3 delivered
RefreshItems ==
    { Item("E1", "completed", AcmeSubject, <<>>, <<Signer("Ann", "completed", "1")>>, Created1),
      Item("E2", "completed", "Please sign", <<>>, <<Signer("Bob", "sent", "2")>>, Created1),
      Item("E2", "completed", AcmeSubject, <<>>, <<Signer("Bob", "completed", "2")>>, Created1),
      Item("E2", "sent", "Please sign", <<>>,
           <<Signer("Ann", "completed", "1"), Signer("Dee", "sent", str_of(None))>>, Created1),
      Item("E3", "delivered", "Please sign", <<>>, <<>>, Created1) }

RECURSIVE upsert_all(_, _, _, _)
\* app.py lines 270-271: the loop of the sync over the fetched payloads
upsert_all(items, sess, db, t) ==
    IF items = <<>> THEN sess
    ELSE upsert_all(Tail(items), upsert_envelope(sess, db, Head(items), t).sess, db, t)

InitRefresh ==
    /\ now = 0
    /\ \E items \in SeqsUpTo(StoredItems, Cardinality(StoredItems)) :
          /\ envelopes = commit(upsert_all(items, EmptyTable, EmptyTable, 0), EmptyTable)
          /\ sync_logs = success_log(<<>>, Len(items), 0)
    /\ run = [r \in Runs |-> IdleRun]
    /\ stats = IdleStats
    /\ changed_at = NoTime
    /\ last = IdleLast
    /\ derive_call = IdleDerive
    /\ deal_call = IdleDeal

NextRefresh ==
    \/ Tick
    \/ \E r \in Runs : RefreshStart(r)
    \/ \E r \in Runs : RefreshOne(r, RefreshItems)
    \/ \E r \in Runs : RefreshCommit(r)
    \/ \E r \in Runs : Finish(r)

SpecRefresh == InitRefresh /\ [][NextRefresh]_vars

\* one incremental sync over envelopes an earlier sync has stored; the
\* provider returns E1 in two versions and E2
MapItems ==
    { Item("E1", "Sent", AcmeSubject, <<>>, <<Signer("Ann", "sent", "1")>>, Created1),
      Item("E1", "Delivered", "Please sign", <<>>,
           <<Signer("Ann", "completed", "1"), Signer("Bob", "sent", "2")>>, Created1),
      Item("E2", "completed", "Please sign", <<>>, <<Signer("Bob", "sent", "2")>>, Created1) }

\* the request the server takes
MapStart(r) ==
    /\ stats.requests < Cardinality(Runs)
    /\ SyncStart(r, {<<>>}, {FALSE})

NextMap ==
    \/ Tick
    \/ \E r \in Runs : MapStart(r)
    \/ \E r \in Runs : SyncFetch(r, MapItems)
    \/ \E r \in Runs : SyncUpsert(r)
    \/ \E r \in Runs : SyncCommit(r)
    \/ \E r \in Runs : SyncExcept(r)

SpecMap == InitRefresh /\ [][NextMap]_vars

\* two requests served at the same time, as the threads of the server serve
\* them, one request each: incremental syncs whose steps interleave.  The
\* SyncLog may hold the success row of an earlier sync that found nothing.
ConcRuns == {"r1", "r2"}

ConcItems ==
    { Item("E1", "Sent", AcmeSubject, <<>>, <<Signer("Ann", "sent", "1")>>, Created1) }

InitConc ==
    /\ now = 0
    /\ envelopes = EmptyTable
    /\ sync_logs \in {<<>>, success_log(<<>>, 0, 0)}
    /\ run = [r \in ConcRuns |-> IdleRun]
    /\ stats = IdleStats
    /\ changed_at = NoTime
    /\ last = IdleLast
    /\ derive_call = IdleDerive
    /\ deal_call = IdleDeal

\* a thread takes a request for an incremental sync
ConcStart(r) ==
    /\ stats.requests < Cardinality(ConcRuns)
    /\ SyncStart(r, {<<>>}, {FALSE})

NextConc ==
    \/ Tick
    \/ \E r \in ConcRuns : ConcStart(r)
    \/ \E r \in ConcRuns : SyncFetch(r, ConcItems)
    \/ \E r \in ConcRuns : SyncUpsert(r)
    \/ \E r \in ConcRuns : SyncCommit(r)
    \/ \E r \in ConcRuns : SyncExcept(r)

SpecConc == InitConc /\ [][NextConc]_vars

\* two syncs served at the same time while envelope E1, stored by an earlier
\* sync, changes at the provider: the stored version, the provider's version
\* before the change and its version after it
StoredVersion ==
    Item("E1", "Sent", AcmeSubject, <<>>, <<Signer("Ann", "sent", "1")>>, Created1)

OlderVersion ==
    Item("E1", "Delivered", AcmeSubject, <<>>, <<Signer("Ann", "delivered", "1")>>, Created1)

NewerVersion ==
    Item("E1", "Completed", AcmeSubject, <<>>, <<Signer("Ann", "completed", "1")>>, Created1)

\* what the provider returns for E1 now
ProviderVersion == IF changed_at = NoTime THEN OlderVersion ELSE NewerVersion

InitVersion ==
    /\ now = 0
    /\ envelopes = commit(upsert_all(<<StoredVersion>>, EmptyTable, EmptyTable, 0),
                          EmptyTable)
    /\ sync_logs = success_log(<<>>, 1, 0)
    /\ run = [r \in ConcRuns |-> IdleRun]
    /\ stats = IdleStats
    /\ changed_at = NoTime
    /\ last = IdleLast
    /\ derive_call = IdleDerive
    /\ deal_call = IdleDeal

\* E1 changes at the provider, once
VersionChange ==
    /\ changed_at = NoTime
    /\ ProviderChange

\* the provider is asked and answers with the version it holds
VersionFetch(r) ==
    /\ run[r].pc = "fetch"
    /\ SyncFetch(r, {ProviderVersion})

NextVersion ==
    \/ Tick
    \/ VersionChange
    \/ \E r \in ConcRuns : ConcStart(r)
    \/ \E r \in ConcRuns : VersionFetch(r)
    \/ \E r \in ConcRuns : SyncUpsert(r)
    \/ \E r \in ConcRuns : SyncCommit(r)
    \/ \E r \in ConcRuns : SyncExcept(r)

SpecVersion == InitVersion /\ [][NextVersion]_vars

\* upsert_envelope alone
NextUpsert == Tick \/ UpsertPrior \/ UpsertOnce \/ UpsertAgain

SpecUpsert == Init /\ [][NextUpsert]_vars

(* derive_app_status alone, on every drawn pair of arguments *)

InitDerive ==
    /\ now = 0
    /\ envelopes = EmptyTable
    /\ sync_logs = <<>>
    /\ run = [r \in Runs |-> IdleRun]
    /\ stats = IdleStats
    /\ changed_at = NoTime
    /\ last = IdleLast
    /\ InitDerivePart
    /\ deal_call = IdleDeal

NextDerive == CallDerive

SpecDerive == InitDerive /\ [][NextDerive]_vars

(* the deal-name extraction alone, on every drawn pair of arguments *)

InitDeal ==
    /\ now = 0
    /\ envelopes = EmptyTable
    /\ sync_logs = <<>>
    /\ run = [r \in Runs |-> IdleRun]
    /\ stats = IdleStats
    /\ changed_at = NoTime
    /\ last = IdleLast
    /\ derive_call = IdleDerive
    /\ InitDealPart

NextDeal == CallDeal

SpecDeal == InitDeal /\ [][NextDeal]_vars

----------------------------------------------------------------------------
(* Claims about upsert_envelope on its own (SpecUpsert) *)

\* a stored row without its updated_at
WithoutUpdatedAt(row) == [row EXCEPT !.updated_at = NoTime]

\* C1: upsert_envelope is idempotent: when a payload has been applied and is
\* applied again right after (both calls returning), the stored envelopes and
\* their recipients are what they were after the first application, except
\* for updated_at.
C1_UpsertIdempotent ==
    last.repeated =>
        /\ DOMAIN envelopes = DOMAIN last.before
        /\ \A k \in DOMAIN envelopes :
              WithoutUpdatedAt(envelopes[k]) = WithoutUpdatedAt(last.before[k])

\* a payload with signers was applied twice over a stored row, at different times
C1_Witness ==
    /\ last.repeated
    /\ last.item.signers # <<>>
    /\ envelopes["E1"].updated_at # last.before["E1"].updated_at
    /\ envelopes["E1"].recipients = last.before["E1"].recipients

\* the recipient row the claim expects for a signer of the payload
ExpectedRecipient(sg) ==
    [name |-> IF sg.name = Absent THEN None ELSE sg.name,
     email |-> IF sg.email = Absent THEN None ELSE sg.email,
     role |-> IF sg.roleName = Absent THEN None ELSE sg.roleName,
     routing_order |-> CASE sg.routingOrder = "1" -> 1
                         [] sg.routingOrder = "2" -> 2
                         [] OTHER -> 9999,
     recipient_status |-> CASE sg.status \in {"completed", "Completed"} -> "completed"
                            [] sg.status \in {None, Absent} -> ""
                            [] OTHER -> sg.status,
     raw |-> sg]

\* C6: after an upsert that returns, the stored recipients of the envelope are
\* exactly the payload's signers: same count, same order, same fields; so no
\* recipient stored before remains unless the payload names it.
C6_RecipientsReplaced ==
    (last.n > 0 /\ ~last.raised) =>
        LET stored == envelopes[last.item.envelopeId].recipients
            signers == last.item.signers
        IN /\ Len(stored) = Len(signers)
           /\ \A k \in DOMAIN signers : stored[k] = ExpectedRecipient(signers[k])

\* an upsert with signers Bob, Ann has replaced a stored row that held the
\* recipients Eve, Bob: Eve is gone, and Bob has moved to the first place
C6_Witness ==
    /\ last.n = 2 /\ ~last.raised
    /\ "E1" \in DOMAIN last.before
    /\ Len(last.before["E1"].recipients) = 2
    /\ last.before["E1"].recipients[1].name = "Eve"
    /\ Len(envelopes["E1"].recipients) = 2
    /\ envelopes["E1"].recipients[1].name = "Bob"
    /\ envelopes["E1"].recipients[2].name = "Ann"
    /\ \A j \in 1..2 :
          last.before["E1"].recipients[1] # envelopes["E1"].recipients[j]

\* the payload has an envelope id, no custom field with a null name or value
\* and no signer with a null status or an unreadable routing order: nothing but
\* its timestamps can make the upsert raise
SoundButForTimestamps(item) ==
    /\ item.envelopeId # Absent
    /\ \A k \in DOMAIN item.textCustomFields :
          item.textCustomFields[k].name # None /\ item.textCustomFields[k].value # None
    /\ \A k \in DOMAIN item.signers :
          /\ item.signers[k].status # None
          /\ item.signers[k].routingOrder \in {Absent, None, "", "1", "2"}

\* the ISO-8601 strings of the model
IsoStrings ==
    {"2024-01-01T12:00:00Z", "2024-01-01T12:00:00+00:00",
     "2024-01-02T09:30:00Z", "2024-01-02T09:30:00"}

\* C17: an absent or unparseable timestamp of the payload is stored as null
\* and never makes the upsert raise.
C17_TimestampsNeverRaise ==
    (last.n > 0 /\ SoundButForTimestamps(last.item)) =>
        /\ ~last.raised
        /\ last.item.createdDateTime \notin IsoStrings =>
              envelopes[last.item.envelopeId].created_at = None

\* what the payload derives for each scalar column, spelled out for the
\* payloads of the model
ExpectedStatus(item) ==
    CASE item.status \in {"Sent", "sent"} -> "sent"
      [] item.status \in {"Delivered", "delivered"} -> "delivered"
      [] item.status \in {"Completed", "completed"} -> "completed"
      [] item.status \in {None, Absent} -> ""
      [] OTHER -> item.status

ExpectedDealName(item) ==
    IF item.textCustomFields # <<>>
          /\ item.textCustomFields[1] = [name |-> "Deal", value |-> " Project X "]
    THEN "Project X"
    ELSE IF item.emailSubject = "Complete with Docusign: Acme Corp Subscription"
    THEN "Acme Corp"
    ELSE None

ExpectedTime(s) ==
    CASE s \in {"2024-01-01T12:00:00Z", "2024-01-01T12:00:00+00:00"}
             -> "2024-01-01 12:00:00+00:00"
      [] s = "2024-01-02T09:30:00Z" -> "2024-01-02 09:30:00+00:00"
      [] OTHER -> None

\* C18: after an upsert that returns, every scalar column of the envelope is
\* what the payload derives (null where the payload has none), whatever was
\* stored before.
C18_ScalarsOverwritten ==
    (last.n > 0 /\ ~last.raised) =>
        LET item == last.item
            row == envelopes[item.envelopeId]
        IN /\ row.subject = item.emailSubject
           /\ row.sender_email = item.sender
           /\ row.status = ExpectedStatus(item)
           /\ row.deal_name = ExpectedDealName(item)
           /\ row.created_at = ExpectedTime(item.createdDateTime)
           /\ row.sent_at = ExpectedTime(item.sentDateTime)
           /\ row.delivered_at = ExpectedTime(item.deliveredDateTime)
           /\ row.completed_at = ExpectedTime(item.completedDateTime)

\* an upsert has replaced a stored subject and status, and has reset a stored
\* deal name to null
C18_Witness ==
    /\ last.n = 2 /\ ~last.raised
    /\ "E1" \in DOMAIN last.before
    /\ last.before["E1"].deal_name = "Acme Corp"
    /\ envelopes["E1"].deal_name = None
    /\ last.before["E1"].subject # envelopes["E1"].subject
    /\ last.before["E1"].status # envelopes["E1"].status

TimestampColumns == {"created_at", "sent_at", "delivered_at", "completed_at"}

PayloadTime(item, col) ==
    CASE col = "created_at" -> item.createdDateTime
      [] col = "sent_at" -> item.sentDateTime
      [] col = "delivered_at" -> item.deliveredDateTime
      [] col = "completed_at" -> item.completedDateTime

UpsertedStoredRow ==
    /\ last.n > 0 /\ ~last.raised
    /\ last.item.envelopeId \in DOMAIN last.before

\* C19 as stated: a timestamp column that was non-null before an upsert has the
\* same value after it.
C19_TimestampsSetOnce ==
    UpsertedStoredRow =>
        \A col \in TimestampColumns :
            last.before[last.item.envelopeId][col] # None =>
                envelopes[last.item.envelopeId][col]
                    = last.before[last.item.envelopeId][col]

\* C19: every upsert that returns leaves each of the four timestamp columns at
\* the value parsed from the payload, null when the payload has none; a
\* stored timestamp is unchanged exactly when the payload reports the same
\* instant.
C19_TimestampsFollowPayload ==
    UpsertedStoredRow =>
        \A col \in TimestampColumns :
            LET was == last.before[last.item.envelopeId][col]
                is == envelopes[last.item.envelopeId][col]
            IN /\ is = ExpectedTime(PayloadTime(last.item, col))
               /\ (is = was) <=> (ExpectedTime(PayloadTime(last.item, col)) = was)

\* a stored created_at was changed to another instant, and a stored
\* completed_at was reset to null
C19_Witness ==
    /\ UpsertedStoredRow
    /\ last.before["E1"].created_at = "2024-01-01 12:00:00+00:00"
    /\ envelopes["E1"].created_at = "2024-01-02 09:30:00+00:00"
    /\ last.before["E1"].completed_at = "2024-01-02 09:30:00+00:00"
    /\ envelopes["E1"].completed_at = None

\* the payload has an envelope id, parseable timestamps and no signer with a
\* null status or an unreadable routing order: nothing but its custom fields
\* can make the upsert raise
SoundButForCustomFields(item) ==
    /\ item.envelopeId # Absent
    /\ \A col \in TimestampColumns : PayloadTime(item, col) \in IsoStrings \cup {None}
    /\ \A k \in DOMAIN item.signers :
          /\ item.signers[k].status # None
          /\ item.signers[k].routingOrder \in {Absent, None, "", "1", "2"}

\* C20: the first custom field with a mapped name and a populated value gives
\* the deal name whatever the subject is, and a field whose value is absent,
\* null or empty is skipped without error, the deal name then coming from
\* the fields after it or from the subject.
C20_CustomFieldPhaseWins ==
    (last.n > 0 /\ SoundButForCustomFields(last.item)) =>
        /\ ~last.raised
        /\ envelopes[last.item.envelopeId].deal_name = ExpectedDealName(last.item)

\* the payload has an envelope id, parseable timestamps, no custom field with
\* a null name or value and no signer with a null status: nothing but the
\* routing order of a signer can make the upsert raise
SoundButForRouting(item) ==
    /\ item.envelopeId # Absent
    /\ \A col \in TimestampColumns : PayloadTime(item, col) \in IsoStrings \cup {None}
    /\ \A k \in DOMAIN item.textCustomFields :
          item.textCustomFields[k].name # None /\ item.textCustomFields[k].value # None
    /\ \A k \in DOMAIN item.signers : item.signers[k].status # None

\* the signers of the payload whose routing order is absent at the provider
\* (docusign_client.py line 104 and app.py line 364 write str(None) for them)
WithoutRoutingOrder(item) ==
    {k \in DOMAIN item.signers : item.signers[k].routingOrder = "None"}

\* C27: the upsert of a payload with a signer whose routing order is absent at
\* the provider does not fail, and stores that recipient with routing_order
\* 9999.
C27_AbsentRoutingOrderStoredAs9999 ==
    (/\ last.n > 0
     /\ SoundButForRouting(last.item)
     /\ WithoutRoutingOrder(last.item) # {}) =>
        /\ ~last.raised
        /\ \A k \in WithoutRoutingOrder(last.item) :
              envelopes[last.item.envelopeId].recipients[k].routing_order = 9999

\* C16: an upsert of a payload without envelope id raises before it touches
\* the storage: it reads nothing, and the stored rows are what they were.
C16_MissingIdFailsFast ==
    (last.n > 0 /\ last.item.envelopeId = Absent) =>
        /\ last.raised
        /\ ~last.read
        /\ envelopes = last.before

\* a payload without envelope id was upserted over a stored row
C16_Witness ==
    /\ last.n = 2 /\ last.item.envelopeId = Absent
    /\ last.before # EmptyTable
    /\ envelopes = last.before

----------------------------------------------------------------------------
(* Claims about the deal-name extraction on its own (SpecDeal) *)

\* C21: for every list of custom fields and every subject the extraction
\* returns, and what it returns is null or a trimmed, non-empty string of more
\* than 2 characters.
C21_ExtractorTotalAndResultLong ==
    deal_call.called =>
        /\ ~deal_call.result.raised
        /\ \/ deal_call.result.value = None
           \/ /\ deal_call.result.value # ""
              /\ Strip(deal_call.result.value) = deal_call.result.value
              /\ StrLen(deal_call.result.value) > 2

\* the extraction returned a deal name of 2 characters, taken from a custom
\* field, none of whose fields has a null name or value
C21_ShortDealName ==
    /\ deal_call.called /\ ~deal_call.result.raised
    /\ deal_call.result.value = "AB"
    /\ \A k \in DOMAIN deal_call.textCustomFields :
          deal_call.textCustomFields[k].value # None

\* no custom field of the call gives a deal name: each has an unmapped name
\* or an absent, empty or blank value
NoCustomFieldMatch ==
    \A k \in DOMAIN deal_call.textCustomFields :
        \/ deal_call.textCustomFields[k].name = "notes"
        \/ deal_call.textCustomFields[k].value \in {Absent, "", "  "}

\* the capture of pattern i in the subject of the call is accepted: it exists,
\* is longer than 2 once trimmed and is not a stoplist word
AcceptedCapture(i) ==
    LET s == IF deal_call.emailSubject = None THEN "" ELSE deal_call.emailSubject
        c == re_search(i, s)
    IN /\ c # NoMatch
       /\ StrLen(Strip(c)) > 2
       /\ Lower(Strip(c)) \notin {"complete", "docusign", "with"}

\* what the subject phase gives for the subjects of the model
ExpectedFromSubject(s) ==
    CASE s = "Complete with Docusign: Acme Corp Subscription" -> "Acme Corp"
      [] s = "STRATA_Trust Account Form" -> "STRATA"
      [] s = "Docusign Consent: Acme Form" -> "Acme"
      [] OTHER -> None

\* C26: when no custom field gives a deal name, the deal name is the trimmed
\* capture of the first pattern, in the order of the list, whose capture is
\* accepted (longer than 2 once trimmed, not in the stoplist); captures of
\* earlier patterns that are rejected do not end the search; with no accepted
\* capture the deal name is null.
C26_FirstAcceptedCaptureWins ==
    (deal_call.called /\ NoCustomFieldMatch) =>
        /\ ~deal_call.result.raised
        /\ deal_call.result.value = ExpectedFromSubject(deal_call.emailSubject)
        /\ IF \E i \in 1..7 : AcceptedCapture(i)
           THEN \E i \in 1..7 :
                   /\ AcceptedCapture(i)
                   /\ \A j \in 1..(i - 1) : ~AcceptedCapture(j)
                   /\ deal_call.result.value
                         = Strip(re_search(i, deal_call.emailSubject))
           ELSE deal_call.result.value = None

\* pattern 3 captured the stoplist word "Docusign", which was rejected, and
\* the capture of pattern 5 became the deal name
C26_Witness ==
    /\ deal_call.called /\ NoCustomFieldMatch
    /\ deal_call.emailSubject = "Docusign Consent: Acme Form"
    /\ re_search(3, deal_call.emailSubject) = "Docusign"
    /\ ~AcceptedCapture(3)
    /\ deal_call.result.value = "Acme"

----------------------------------------------------------------------------
(* Claims about derive_app_status on its own (SpecDerive) *)

AppStatuses ==
    {"Draft", "Awaiting Customer", "Partially Signed", "Awaiting Processing",
     "Completed", "Declined", "Cancelled"}

\* the recipients of the list whose status is "completed", whatever the case
Signed(recipients) ==
    {k \in DOMAIN recipients :
        recipients[k].status \in {"completed", "Completed", "COMPLETED"}}

\* the mapping as the claim states it
MappedStatus(raw, recipients) ==
    CASE raw = "voided" -> "Cancelled"
      [] raw = "declined" -> "Declined"
      [] raw = "completed" -> "Completed"
      [] raw \in {"sent", "delivered"} ->
            IF Signed(recipients) = {} THEN "Awaiting Customer"
            ELSE IF Signed(recipients) # DOMAIN recipients THEN "Partially Signed"
            ELSE "Awaiting Processing"
      [] OTHER -> "Draft"

\* C7: derive_app_status returns the status of the finite mapping: voided ->
\* Cancelled, declined -> Declined, completed -> Completed, sent or delivered ->
\* by the signing progress of the recipients, anything else -> Draft.
C7_FiniteMapping ==
    derive_call.called =>
        /\ ~derive_call.result.raised
        /\ derive_call.result.value =
              MappedStatus(derive_call.status, derive_call.recipients)

\* the mapping holds of every call that returns
C7_MappingWhereItReturns ==
    (derive_call.called /\ ~derive_call.result.raised) =>
        derive_call.result.value =
            MappedStatus(derive_call.status, derive_call.recipients)

\* C8: derive_app_status is total: for every raw status and recipient list,
\* recipients with an absent or null status included, it returns one of the
\* seven labels and does not raise.
C8_Total ==
    derive_call.called =>
        ~derive_call.result.raised /\ derive_call.result.value \in AppStatuses

----------------------------------------------------------------------------
(* Claims about the sync orchestrator (Spec, SpecWindow, SpecRun) *)

\* the request of run r is a sync without days_back and without force_full_sync
Unparameterized(r) ==
    run[r].kind = "sync" /\ run[r].days_back = <<>> /\ ~run[r].force_full_sync

\* run r is choosing its window in this step, and a success row exists
ChoosesWindowAfterSuccess(r) ==
    /\ run[r].pc = "fetch" /\ run'[r].pc # "fetch"
    /\ Unparameterized(r)
    /\ success_rows(sync_logs) # {}

\* C2 as stated: after a successful sync with last_sync_date D, the next sync
\* without parameters fetches with window start = D.
C2_WindowStartIsD ==
    [][\A r \in Runs :
          ChoosesWindowAfterSuccess(r) =>
              DayStart(run'[r].from_date) = last_sync_date_of(sync_logs)]_vars

\* C2 amended: the window start is the calendar date of D, that is, the
\* midnight that begins the day of D (and so not now - 30 days).
C2_WindowStartIsDateOfD ==
    [][\A r \in Runs :
          ChoosesWindowAfterSuccess(r) =>
              LET D == last_sync_date_of(sync_logs) IN
              /\ run'[r].consulted
              /\ DayStart(run'[r].from_date) <= D
              /\ D < DayStart(run'[r].from_date + 1)]_vars

\* a sync without parameters has chosen its window from a success row whose
\* last_sync_date is not a midnight
C2_Witness ==
    \E r \in Runs :
        /\ Unparameterized(r) /\ run[r].pc = "upsert" /\ run[r].consulted
        /\ success_rows(sync_logs) # {}
        /\ last_sync_date_of(sync_logs) # DayStart(run[r].from_date)
        /\ run[r].from_date = strftime_date(last_sync_date_of(sync_logs))

\* run r, a sync without parameters, has chosen its window and no success row
\* exists
ChoseWindowWithoutSuccess(r) ==
    /\ Unparameterized(r)
    /\ run[r].pc \in {"upsert", "except"} /\ run[r].window_at # NoTime
    /\ \A k \in DOMAIN sync_logs : sync_logs[k].sync_status # "success"

\* C11 as stated: on the incremental path, when no success row exists, the
\* window start is now - 30 days.
C11_FallbackIsNowMinus30Days ==
    \A r \in Runs :
        ChoseWindowWithoutSuccess(r) =>
            DayStart(run[r].from_date) = minus_days(run[r].window_at, DefaultDays)

\* C11 amended: the window start is the calendar date of now - 30 days, the
\* SyncLog having been consulted; error rows never supply the window.
C11_FallbackIsDateOfNowMinus30Days ==
    \A r \in Runs :
        ChoseWindowWithoutSuccess(r) =>
            /\ run[r].consulted
            /\ run[r].from_date =
                  strftime_date(minus_days(run[r].window_at, DefaultDays))

\* a sync without parameters has chosen its window, not at a midnight, while
\* the SyncLog held an error row and no success row
C11_Witness ==
    \E r \in Runs :
        /\ ChoseWindowWithoutSuccess(r)
        /\ sync_logs # <<>>
        /\ DayStart(strftime_date(run[r].window_at)) # run[r].window_at

\* no sync attempt is under way
NoAttemptUnderWay == \A r \in Runs : run[r].pc \in {"idle", "done"}

\* C3 as stated: the number of SyncLog rows equals the number of sync
\* attempts, whatever their outcome.
C3_OneRowPerAttempt ==
    NoAttemptUnderWay => Len(sync_logs) = stats.attempts

\* C3 amended: every attempt appends exactly one row, except the attempts whose
\* failure-log write itself raised, which append none.  (A request rejected
\* before the try block, its body unreadable, attempts no sync and appends none.)
C3_OneRowUnlessLogWriteFails ==
    NoAttemptUnderWay => Len(sync_logs) = stats.attempts - stats.swallowed

\* two attempts are over: one left its row, the other's failure row was lost
C3_Witness ==
    /\ NoAttemptUnderWay
    /\ stats.attempts = 2 /\ stats.swallowed = 1
    /\ Len(sync_logs) = 1

\* the provider call of run r raised, and the attempt is over
ProviderCallRaised(r) ==
    run[r].kind = "sync" /\ run[r].pc = "done" /\ run[r].error \in FetchErrors

\* the attempt of run r appended exactly one row, the failure row of the claim
AppendedFailureRow(r) ==
    /\ Len(sync_logs) = run[r].logs_before + 1
    /\ sync_logs[Len(sync_logs)].sync_status = "error"
    /\ sync_logs[Len(sync_logs)].envelopes_synced = 0
    /\ sync_logs[Len(sync_logs)].error_message # <<>>

\* C4 as stated: when the provider call raises before any record is processed,
\* one row with status error, count 0 and a non-empty message is appended, and
\* no envelope or recipient row is changed.
C4_ProviderFailureLogged ==
    \A r \in Runs :
        ProviderCallRaised(r) =>
            AppendedFailureRow(r) /\ envelopes = run[r].db_before

\* C4 amended: the same, unless the write of the failure row itself raises, in
\* which case no row is appended; the envelopes are unchanged either way.
C4_ProviderFailureLoggedUnlessLogWriteFails ==
    \A r \in Runs :
        ProviderCallRaised(r) =>
            /\ envelopes = run[r].db_before
            /\ IF run[r].log_failed
               THEN Len(sync_logs) = run[r].logs_before
               ELSE AppendedFailureRow(r)

\* a provider failure was logged while an envelope was stored
C4_Witness ==
    \E r \in Runs :
        /\ ProviderCallRaised(r) /\ ~run[r].log_failed
        /\ envelopes # EmptyTable
        /\ Len(sync_logs) = 2

\* C13: when the write of the failure row itself fails, the sync still
\* answers with the original error (status 500, its message), never with the
\* error of the log write.
C13_LogFailureSwallowed ==
    \A r \in Runs :
        (run[r].kind = "sync" /\ run[r].pc = "done" /\ run[r].log_failed) =>
            /\ run[r].error \in {CredentialError, UpsertError, CommitError}
                                 \cup FetchErrors
            /\ run[r].response.code = 500
            /\ run[r].response.error = run[r].error.text
            /\ run[r].response.error # LogWriteError.text

\* an upsert raised, the write of the failure row failed too, and the sync
\* has answered
C13_Witness ==
    \E r \in Runs :
        /\ run[r].kind = "sync" /\ run[r].pc = "done" /\ run[r].log_failed
        /\ run[r].error = UpsertError
        /\ Len(sync_logs) = run[r].logs_before

\* C14: on a failed sync whose failure row was written, the original message
\* is surfaced with bounded length (at most ErrMax characters, a prefix of the
\* message) both in the row's error_message and in the response.
C14_ErrorBoundedInRowAndResponse ==
    \A r \in Runs :
        ( /\ run[r].kind = "sync" /\ run[r].pc = "done"
          /\ run[r].response.code = 500 /\ ~run[r].log_failed ) =>
            LET text == run[r].error.text
                row == sync_logs[Len(sync_logs)]
                Bounded(m) == /\ m # <<>>
                              /\ Len(m) <= ErrMax
                              /\ Len(m) <= Len(text)
                              /\ m = SubSeq(text, 1, Len(m))
            IN /\ Bounded(row.error_message)
               /\ Bounded(run[r].response.error)

\* C15 as stated: the SyncLog row and the envelope data are committed in
\* distinct steps, on success as on failure: no step writes both.
C15_LogAndDataInDistinctSteps ==
    [][sync_logs' # sync_logs => envelopes' = envelopes]_vars

\* C15 amended: a failure row is committed by a step of its own, which writes
\* no envelope, the data session being gone; the success row is committed by
\* the very step that writes the run's envelopes, and no other step of a sync
\* writes envelopes.
C15_FailureLogSeparateSuccessLogJoint ==
    [][\A r \in Runs :
          /\ (sync_logs' # sync_logs
                 /\ sync_logs'[Len(sync_logs')].sync_status = "error") =>
                /\ envelopes' = envelopes
                /\ run[r].session = EmptyTable
          /\ (sync_logs' # sync_logs
                 /\ sync_logs'[Len(sync_logs')].sync_status = "success") =>
                \A k \in DOMAIN run[r].session :
                    k \in DOMAIN envelopes' /\ envelopes'[k] = run[r].session[k]
          /\ envelopes' # envelopes =>
                /\ Len(sync_logs') = Len(sync_logs) + 1
                /\ sync_logs'[Len(sync_logs')].sync_status = "success"]_vars

\* one commit has written both an envelope and the success row of its run
C15_Witness ==
    \E r \in Runs :
        /\ run[r].kind = "sync" /\ run[r].pc = "done"
        /\ run[r].response.code = 200
        /\ envelopes # run[r].db_before
        /\ Len(sync_logs) = run[r].logs_before + 1

\* C12: on full success the sync appends one row with status success,
\* last_sync_date the wall-clock time at which it is written and
\* envelopes_synced the number of records processed, and answers 200 with the
\* same count as synced_count.
C12_SuccessRow ==
    [][\A r \in Runs :
          (run[r].kind = "sync" /\ run[r].pc = "upsert" /\ run'[r].pc = "done") =>
              LET row == sync_logs'[Len(sync_logs')] IN
              /\ Len(sync_logs') = Len(sync_logs) + 1
              /\ row.sync_status = "success"
              /\ row.last_sync_date = now
              /\ row.envelopes_synced = run[r].i - 1
              /\ row.envelopes_synced = Len(run[r].envelopes)
              /\ run'[r].response.code = 200
              /\ run'[r].response.synced_count = row.envelopes_synced]_vars

\* a sync of two records has succeeded, later than the clock's start
C12_Witness ==
    \E r \in Runs :
        /\ run[r].kind = "sync" /\ run[r].pc = "done"
        /\ run[r].response.code = 200 /\ run[r].response.synced_count = 2
        /\ sync_logs # <<>>
        /\ sync_logs[Len(sync_logs)].sync_status = "success"
        /\ sync_logs[Len(sync_logs)].envelopes_synced = 2
        /\ sync_logs[Len(sync_logs)].last_sync_date > 0

\* C24: every sync invocation that has answered went through exactly one of
\* the two logging outcomes: it logged success and answers 200, or it went
\* through the failure logging, holding the exception it caught, and answers
\* with that error.
C24_EveryInvocationLogsOnce ==
    \A r \in Runs :
        (run[r].pc = "done" /\ run[r].kind = "sync") =>
            \/ /\ run[r].response.code = 200
               /\ run[r].error = NoError
               /\ Len(sync_logs) = run[r].logs_before + 1
               /\ sync_logs[Len(sync_logs)].sync_status = "success"
            \/ /\ run[r].response.code = 500
               /\ run[r].error # NoError

\* (checked under SpecChange)
\* C9: incremental sync loses no provider change.  Stated on the window: when
\* a sync without parameters has fetched, after syncs without parameters that
\* all succeeded, a change made after the last of them fetched and before this
\* one did is inside this one's window.
C9_NoChangeOutsideWindow ==
    \A r \in Runs :
        ( /\ Unparameterized(r) /\ run[r].pc = "upsert"
          /\ stats.plain
          /\ stats.success_fetched_at # NoTime
          /\ changed_at > stats.success_fetched_at
          /\ changed_at < run[r].fetched_at )
        => DayStart(run[r].from_date) <= changed_at

\* the request of run r forces a full sync or supplies a day count
Parameterized(r) ==
    run[r].kind = "sync" /\ (run[r].force_full_sync \/ run[r].days_back # <<>>)

\* C10: with force_full_sync or a day count N >= 0 the window starts N days
\* before now (30 when no count is given), at the granularity of the date the
\* provider is given, and the SyncLog is not consulted.
C10_ExplicitWindow ==
    \A r \in Runs :
        (Parameterized(r) /\ run[r].window_at # NoTime) =>
            LET N == IF run[r].days_back # <<>> THEN run[r].days_back[1]
                     ELSE DefaultDays
            IN /\ ~run[r].consulted
               /\ run[r].from_date = strftime_date(run[r].window_at) - N

----------------------------------------------------------------------------
(* Claims about two syncs served at the same time (SpecConc) *)

\* the run has answered after upserting envelope E1, which was not stored when
\* it started, and no failure of the provider or of the database server
\* stopped it: if it failed, it failed on the key of envelopes
UpsertedNewE1(r) ==
    /\ run[r].pc = "done" /\ run[r].kind = "sync"
    /\ "E1" \notin DOMAIN run[r].db_before
    /\ run[r].envelopes # <<>>
    /\ \A k \in DOMAIN run[r].envelopes : run[r].envelopes[k].envelopeId = "E1"
    /\ run[r].error.type \in {"", "IntegrityError: duplicate entry for key PRIMARY"}

\* the row one upsert of the payload of E1 leaves, updated_at apart
SingleUpsertOfE1 ==
    [subject |-> "Complete with Docusign: Acme Corp Subscription",
     sender_email |-> "sender@example.com", deal_name |-> "Acme Corp",
     status |-> "sent", app_status |-> "Awaiting Customer",
     created_at |-> "2024-01-01 12:00:00+00:00", sent_at |-> None,
     delivered_at |-> None, completed_at |-> None, updated_at |-> NoTime,
     recipients |-> <<ExpectedRecipient(Signer("Ann", "sent", "1"))>>]

\* C22: two runs that both upsert the same envelope id both complete without a
\* storage error, and afterwards the one row of that id is what a single
\* upsert of the payload leaves.
C22_ConcurrentUpsertsSafe ==
    \A r1, r2 \in ConcRuns :
        (r1 # r2 /\ UpsertedNewE1(r1) /\ UpsertedNewE1(r2)) =>
            /\ run[r1].response.code = 200
            /\ run[r2].response.code = 200
            /\ "E1" \in DOMAIN envelopes
            /\ WithoutUpdatedAt(envelopes["E1"]) = SingleUpsertOfE1

\* the SyncLog rows the run's query of line 251 saw
RowsRead(r) == SubSeq(sync_logs, 1, run[r].logs_read)

\* the run chose its window from the SyncLog, which held a success row
ReadSuccessRow(r) ==
    /\ run[r].kind = "sync" /\ run[r].consulted
    /\ run[r].pc \in {"upsert", "except", "done"}
    /\ success_rows(RowsRead(r)) # {}

\* C29: nothing serialises two incremental syncs.  A run that read the SyncLog
\* fetches from the date of the most recent success row that was there when it
\* read it, whatever the other run is doing, so two runs that read the same
\* rows fetch with the same window start; and a run that commits appends one
\* success row of its own, with its own count, and leaves the other run alone.
C29_NoMutualExclusion ==
    [][/\ \A r \in ConcRuns : ReadSuccessRow(r)' =>
              \E k \in success_rows(RowsRead(r)') :
                  /\ \A j \in success_rows(RowsRead(r)') :
                         sync_logs'[j].last_sync_date <= sync_logs'[k].last_sync_date
                  /\ run'[r].from_date = sync_logs'[k].last_sync_date \div DayLen
       /\ \A r, q \in ConcRuns :
              (/\ ReadSuccessRow(r)' /\ ReadSuccessRow(q)'
               /\ run'[r].logs_read = run'[q].logs_read) =>
                   run'[r].from_date = run'[q].from_date
       /\ \A r \in ConcRuns :
              (run[r].pc = "upsert" /\ run'[r].pc = "done") =>
                  /\ Len(sync_logs') = Len(sync_logs) + 1
                  /\ SubSeq(sync_logs', 1, Len(sync_logs)) = sync_logs
                  /\ sync_logs'[Len(sync_logs')].sync_status = "success"
                  /\ sync_logs'[Len(sync_logs')].envelopes_synced =
                         Len(run[r].envelopes)
                  /\ run'[r].response.code = 200
                  /\ \A q \in ConcRuns \ {r} : run'[q] = run[q]]_vars

\* both runs read the one success row before either committed, fetched from
\* its date, and each has appended its own success row: one with the envelope
\* it fetched, one with none
C29_Witness ==
    /\ Len(sync_logs) = 3
    /\ \A r \in ConcRuns :
           /\ run[r].pc = "done" /\ run[r].response.code = 200
           /\ ReadSuccessRow(r) /\ run[r].logs_read = 1
           /\ run[r].from_date = strftime_date(sync_logs[1].last_sync_date)
    /\ run["r1"].window_at # run["r2"].window_at
    /\ {sync_logs[2].envelopes_synced, sync_logs[3].envelopes_synced} = {0, 1}
    /\ {run[r].response.synced_count : r \in ConcRuns} = {0, 1}

\* the run has chosen the window of an incremental sync
ChoseWindow(r) ==
    /\ run[r].kind = "sync" /\ run[r].consulted
    /\ run[r].pc \in {"upsert", "except", "done"}

\* C34 as stated: of two incremental runs, the one whose request started later
\* has a window start that is not before the other's.
C34_WindowOrderedByStart ==
    \A r, q \in ConcRuns :
        (ChoseWindow(r) /\ ChoseWindow(q) /\ run[q].seq < run[r].seq) =>
            run[r].from_date >= run[q].from_date

\* C34: the window start never moves backward in the order in which the runs
\* choose it: when an incremental run reads the SyncLog and chooses its
\* window, its window start is not before the window start of any run that
\* chose before it, whether that run succeeded, failed or is still running.
C34_WindowOrderedByChoice ==
    [][\A r \in ConcRuns :
          (run[r].pc = "fetch" /\ run'[r].pc # "fetch" /\ run'[r].consulted) =>
              \A q \in ConcRuns \ {r} :
                  ChoseWindow(q) => run'[r].from_date >= run[q].from_date]_vars

\* the run that started first chose its window last, after the other run had
\* committed its success row on a later day: its window starts later
C34_Witness ==
    \E r, q \in ConcRuns :
        /\ ChoseWindow(r) /\ ChoseWindow(q)
        /\ run[r].seq < run[q].seq
        /\ run[q].pc = "done" /\ run[q].response.code = 200
        /\ run[r].logs_read = run[q].logs_read + 1
        /\ run[r].from_date > run[q].from_date
        /\ run[r].from_date = strftime_date(sync_logs[run[r].logs_read].last_sync_date)

----------------------------------------------------------------------------
(* Claims about the stored envelopes (SpecStore) *)

\* C23: a webhook delivery with an invalid signature, a shared secret being
\* configured, is answered with an authentication error, and writes nothing
\* to the envelopes or to the SyncLog.
C23_InvalidSignatureRejected ==
    \A r \in Runs :
        (/\ run[r].pc = "done" /\ run[r].kind = "webhook"
         /\ run[r].webhook.secret_configured
         /\ run[r].webhook.signature = "invalid") =>
            /\ run[r].response.code \in {401, 403}
            /\ envelopes = run[r].db_before
            /\ Len(sync_logs) = run[r].logs_before

\* the recipient rows a complete upsert of the payload leaves
ExpectedRecipients(item) ==
    [j \in DOMAIN item.signers |-> ExpectedRecipient(item.signers[j])]

\* C25: every committed envelope shows one upsert as a whole: its recipient
\* rows are the complete recipient list of one payload of the provider, and
\* its row carries the status of that same payload; never the row of one
\* payload with the recipients of another, or with a part of its own.
C25_RecipientsVisibleWithRow ==
    \A k \in DOMAIN envelopes :
        \E item \in StoreItems :
            /\ item.envelopeId = k
            /\ envelopes[k].status = ExpectedStatus(item)
            /\ envelopes[k].recipients = ExpectedRecipients(item)

\* the row a complete upsert of the payload over the stored rows leaves,
\* updated_at apart; NoRow when that upsert raises
NoRow == [raised |-> TRUE]

CompleteUpsert(item) ==
    LET u == upsert_envelope(EmptyTable, envelopes, item, now)
    IN IF u.raised THEN NoRow ELSE WithoutUpdatedAt(u.sess[item.envelopeId])

\* C31: the commit of refresh-deal-names persists no part of an upsert that
\* raised: every stored row the commit changes is the row a complete upsert
\* of a payload of that envelope leaves, and every other row is as it was.
C31_RaisedUpsertPersistsNothing ==
    [][\A r \in Runs :
          (/\ run[r].kind = "refresh" /\ run[r].pc = "refresh"
           /\ run'[r].pc = "done" /\ run'[r].response.code = 200) =>
              \A id \in DOMAIN envelopes :
                  envelopes'[id] # envelopes[id] =>
                      \E item \in StoreItems :
                          /\ item.envelopeId = id
                          /\ WithoutUpdatedAt(envelopes'[id]) = CompleteUpsert(item)]_vars

\* the stored recipients, as the dicts derive_app_status reads
StoredSigners(row) ==
    [k \in DOMAIN row.recipients |-> [status |-> row.recipients[k].recipient_status]]

\* C5: in every committed state each stored envelope's app_status is
\* derive_app_status of its stored raw status and its stored recipients.
C5_AppStatusIsDerived ==
    \A k \in DOMAIN envelopes :
        envelopes[k].app_status =
            derive_app_status(envelopes[k].status, StoredSigners(envelopes[k])).value

----------------------------------------------------------------------------
(* Claims about the SyncLog (SpecLog) *)

\* C28: no step of a sync, a refresh, a status query or a webhook delivery
\* changes or removes a SyncLog row that exists: a step leaves the SyncLog as
\* it is or appends one row to it, and only a step of a sync appends.
C28_SyncLogAppendOnly ==
    [][/\ Len(sync_logs') >= Len(sync_logs)
       /\ SubSeq(sync_logs', 1, Len(sync_logs)) = sync_logs
       /\ Len(sync_logs') <= Len(sync_logs) + 1
       /\ sync_logs' # sync_logs =>
              \E r \in Runs : run[r].kind = "sync" /\ run'[r].kind = "sync"]_vars

\* a second sync has appended its success row after the error row of the
\* first, which is as the first sync wrote it
C28_Witness ==
    /\ Len(sync_logs) = 2
    /\ sync_logs[1].sync_status = "error"
    /\ sync_logs[1].error_message # None
    /\ sync_logs[2].sync_status = "success"
    /\ \E r \in Runs : run[r].pc = "done" /\ run[r].response.code = 200

----------------------------------------------------------------------------
(* Claims about what a sync run commits (SpecRun) *)

\* the run failed in the fetch, in an upsert or in the commit
SyncFailed(r) ==
    /\ run[r].kind = "sync"
    /\ run[r].pc = "except" \/ (run[r].pc = "done" /\ run[r].response.code = 500)

\* the success rows written since run r started
SuccessRowsSince(r) == {k \in success_rows(sync_logs) : k > run[r].logs_before}

\* C30: a sync run is all-or-nothing.  Until the run commits, and after it has
\* failed in the fetch, in an upsert or in the commit, the stored envelopes and
\* recipients are what they were when it started and there is no success row
\* of the run; once its success row exists, every envelope it upserted is
\* stored and the others are as they were.
C30_AllOrNothing ==
    \A r \in Runs :
        /\ (SyncFailed(r) \/ (run[r].kind = "sync" /\ run[r].pc \in {"fetch", "upsert"})) =>
               /\ envelopes = run[r].db_before
               /\ SuccessRowsSince(r) = {}
        /\ (run[r].kind = "sync" /\ SuccessRowsSince(r) # {}) =>
               /\ run[r].pc = "done" /\ run[r].response.code = 200
               /\ SuccessRowsSince(r) = {run[r].logs_before + 1}
               /\ \A k \in DOMAIN run[r].envelopes :
                      run[r].envelopes[k].envelopeId \in DOMAIN envelopes
               /\ \A id \in DOMAIN run[r].db_before :
                      (\A k \in DOMAIN run[r].envelopes :
                           run[r].envelopes[k].envelopeId # id) =>
                          (id \in DOMAIN envelopes /\ envelopes[id] = run[r].db_before[id])

\* the run upserted E1, the upsert of the next payload raised, and E1 is not
\* stored: the run answered 500 after writing an error row
C30_Witness ==
    \E r \in Runs :
        /\ run[r].pc = "done" /\ run[r].response.code = 500
        /\ run[r].error = UpsertError
        /\ run[r].i = 2 /\ run[r].envelopes[1].envelopeId = "E1"
        /\ envelopes = EmptyTable
        /\ sync_logs # <<>> /\ sync_logs[Len(sync_logs)].sync_status = "error"

----------------------------------------------------------------------------
(* Claims about refresh-deal-names on stored envelopes (SpecRefresh) *)

\* the request of run r is a refresh-deal-names call, before or after the step
Refreshing(r) == run[r].kind = "refresh" \/ run'[r].kind = "refresh"

\* C32: refresh-deal-names selects only envelopes stored without a deal name,
\* all of them up to the limit of 20, most recently updated first; no step of
\* the call changes an envelope stored with a deal name, adds or removes an
\* envelope, or changes the SyncLog.
C32_RefreshTouchesOnlyUnnamed ==
    [][\A r \in Runs : Refreshing(r) =>
          /\ sync_logs' = sync_logs
          /\ DOMAIN envelopes' = DOMAIN envelopes
          /\ \A id \in DOMAIN envelopes :
                 envelopes[id].deal_name # None => envelopes'[id] = envelopes[id]
          /\ (run[r].pc = "idle" /\ run'[r].error = NoError) =>
                 LET ids == run'[r].envelopes
                     unnamed == {k \in DOMAIN envelopes : envelopes[k].deal_name = None}
                 IN /\ \A j \in DOMAIN ids : ids[j] \in unnamed
                    /\ \A a, b \in DOMAIN ids : a # b => ids[a] # ids[b]
                    /\ Len(ids) <= RefreshLimit
                    /\ Cardinality(unnamed) <= RefreshLimit =>
                           {ids[j] : j \in DOMAIN ids} = unnamed
                    /\ \A a, b \in DOMAIN ids :
                           a < b => envelopes[ids[a]].updated_at >=
                                        envelopes[ids[b]].updated_at]_vars

\* a second refresh has selected E2, which the first refresh updated, ahead of
\* E3, and has committed: E1, stored with its deal name, is as the sync stored
\* it, and so is the SyncLog
C32_Witness ==
    \E r \in Runs :
        /\ run[r].kind = "refresh" /\ run[r].pc = "done" /\ run[r].response.code = 200
        /\ run[r].envelopes = <<"E2", "E3">>
        /\ stats.requests = 2
        /\ DOMAIN envelopes = {"E1", "E2", "E3"}
        /\ envelopes["E1"].deal_name = "Acme Corp" /\ envelopes["E1"].status = "sent"
        /\ envelopes["E1"].updated_at = 0
        /\ envelopes["E2"].updated_at > envelopes["E3"].updated_at
        /\ envelopes["E3"].status = "sent"
        /\ envelopes["E2"].deal_name = None
        /\ sync_logs = success_log(<<>>, 3, 0)

----------------------------------------------------------------------------
(* Claims about what a successful sync stores (SpecMap) *)

\* the app_status of the payload, spelled out for the payloads of the model
ExpectedAppStatus(item) ==
    LET signed == {j \in DOMAIN item.signers :
                      item.signers[j].status \in {"completed", "Completed"}}
    IN CASE ExpectedStatus(item) = "completed" -> "Completed"
         [] ExpectedStatus(item) \in {"sent", "delivered"} ->
                IF signed = {} THEN "Awaiting Customer"
                ELSE IF Cardinality(signed) < Len(item.signers) THEN "Partially Signed"
                ELSE "Awaiting Processing"
         [] OTHER -> "Draft"

\* the row the mapping of the payload gives, updated_at apart
ExpectedRow(item) ==
    [subject |-> item.emailSubject, sender_email |-> item.sender,
     deal_name |-> ExpectedDealName(item), status |-> ExpectedStatus(item),
     app_status |-> ExpectedAppStatus(item),
     created_at |-> ExpectedTime(item.createdDateTime),
     sent_at |-> ExpectedTime(item.sentDateTime),
     delivered_at |-> ExpectedTime(item.deliveredDateTime),
     completed_at |-> ExpectedTime(item.completedDateTime),
     updated_at |-> NoTime,
     recipients |-> ExpectedRecipients(item)]

\* the ids of the fetched payloads, and the position of the last payload of an id
FetchedIds(r) == {run[r].envelopes[k].envelopeId : k \in DOMAIN run[r].envelopes}

LastFetched(r, id) ==
    CHOOSE k \in DOMAIN run[r].envelopes :
        /\ run[r].envelopes[k].envelopeId = id
        /\ \A j \in DOMAIN run[r].envelopes :
               run[r].envelopes[j].envelopeId = id => j <= k

SyncSucceeded(r) ==
    run[r].kind = "sync" /\ run[r].pc = "done" /\ run[r].response.code = 200

\* C33: after a sync that reports success, every fetched envelope id has a
\* stored row whose columns and recipients are the mapping of the last fetched
\* payload of that id, written during the run; the stored envelopes that were
\* not fetched are as they were, and no other envelope is stored.
C33_SuccessStoresLastPayload ==
    \A r \in Runs : SyncSucceeded(r) =>
        /\ DOMAIN envelopes = DOMAIN run[r].db_before \cup FetchedIds(r)
        /\ \A id \in FetchedIds(r) :
               /\ WithoutUpdatedAt(envelopes[id]) =
                      ExpectedRow(run[r].envelopes[LastFetched(r, id)])
               /\ envelopes[id].updated_at >= run[r].fetched_at
               /\ envelopes[id].updated_at <= now
        /\ \A id \in DOMAIN run[r].db_before \ FetchedIds(r) :
               envelopes[id] = run[r].db_before[id]

\* the sync fetched E1 twice, in two versions, over a table that held E1 and
\* E3: E1 is stored as the second version, after the clock moved, and E3 as it was
C33_Witness ==
    \E r \in Runs :
        /\ SyncSucceeded(r)
        /\ Len(run[r].envelopes) = 2
        /\ run[r].envelopes[1].envelopeId = "E1" /\ run[r].envelopes[1].status = "Sent"
        /\ run[r].envelopes[2].envelopeId = "E1" /\ run[r].envelopes[2].status = "Delivered"
        /\ DOMAIN run[r].db_before = {"E1", "E3"}
        /\ run[r].db_before["E1"].status = "sent"
        /\ envelopes["E1"].status = "delivered"
        /\ envelopes["E1"].app_status = "Partially Signed"
        /\ envelopes["E1"].deal_name = None
        /\ Len(envelopes["E1"].recipients) = 2
        /\ envelopes["E1"].updated_at > 0
        /\ envelopes["E3"] = run[r].db_before["E3"]

----------------------------------------------------------------------------
(* Claims about two syncs of a changing envelope (SpecVersion) *)

\* the run fetched E1 in the version v, and nothing else
FetchedVersion(r, v) ==
    /\ run[r].envelopes # <<>>
    /\ \A k \in DOMAIN run[r].envelopes : run[r].envelopes[k] = v

\* C35: when two syncs have fetched E1, one in the older and one in the newer
\* version of the provider, and both have committed, in either order, the
\* stored row of E1 is the mapping of the newer version.
C35_NewerVersionStored ==
    \A r, q \in ConcRuns :
        (/\ SyncSucceeded(r) /\ FetchedVersion(r, OlderVersion)
         /\ SyncSucceeded(q) /\ FetchedVersion(q, NewerVersion)) =>
            WithoutUpdatedAt(envelopes["E1"]) = ExpectedRow(NewerVersion)

====
